---- MODULE Spec2Model ----
(***************************************************************************)
(* Model of the kubevirt-benchmark workload drivers:                       *)
(*   - the create-with-retry loops of the capacity and migration drivers,  *)
(*   - the capacity driver's Running-state poller,                         *)
(*   - the capacity driver's iteration loop and report,                    *)
(*   - the datasource-clone driver's create/monitor phases,                *)
(*   - the migration driver's migration phase and process exit.            *)
(* Each part has its own variables and its own specification; the other    *)
(* parts' variables are left unchanged by it.                              *)
(***************************************************************************)
EXTENDS Integers, Sequences, FiniteSets, TLC

VARIABLES
    \* ---- create-with-retry (one VM) ----
    rFn,          \* which driver's loop: "capacity" | "migration"
    rMax,         \* max_retries
    rDelay0,      \* initial_delay
    rAttempt,     \* loop variable `attempt` of the next iteration
    rPc,          \* "loop" | "done"
    rOutcomes,    \* outcome of every attempt made so far (in order)
    rSleeps,      \* argument of every time.sleep call made so far (in order)
    rResult,      \* "none" | "created" | "failed"
    \* ---- wait_for_vm_running (capacity) ----
    wTimeout,     \* timeout
    wSchedTimeout,\* scheduling_timeout
    wNow,         \* time.time()
    wStart,       \* start_time
    wSchedStart,  \* scheduling_start (None = -1)
    wSamples,     \* every status sample taken: <<status, time of the sample,
                  \*   time of the loop test before it>>
    wPc,          \* "loop" | "done"
    wRet,         \* return value: <<success, reason>>
    wRetAt,       \* time.time() when the function returned
    \* ---- capacity driver: main, run_iteration, wait_for_vms_running ----
    cArgs,        \* args: vms, max_iterations, skip_resize_job, skip_restart_job,
                  \*   skip_snapshot_job, cleanup, cleanup_only
    cPc,          \* position in main / run_iteration
    cIteration,   \* main: iteration
    cTotalVms,    \* main: total_vms
    cCapReached,  \* main: capacity_reached
    cEndReason,   \* main: end_reason
    cResults,     \* main: the results dictionary (NoResults before it is built)
    cExit,        \* status the process exits with (None while running)
    cCreated,     \* run_iteration: created_vms
    cSuccVms,     \* run_iteration: successful_vms
    cRet,         \* run_iteration: returned <<success, capacity_reached, vms_created>>
    vPhase,       \* wait_for_vms_running: the phase of run_iteration that called it (0 = not called yet)
    vNames,       \* wait_for_vms_running: vm_names
    vIdx,         \* wait_for_vms_running: position of the for loop
    vSucc,        \* wait_for_vms_running: successful
    vFailed,      \* wait_for_vms_running: failed
    vReason,      \* wait_for_vms_running: failure_reason
    vInvoked,     \* history: the names wait_for_vm_running was called with, in order
    vOutcomes,    \* history: what each of those calls did
    cInterrupted, \* history: a KeyboardInterrupt was raised inside the iteration loop
    cCapSignal,   \* history: some wait returned 'scheduling' or 'capacity'
    cIterFailed,  \* history: an iteration returned success = False or raised
    cReturned,    \* history: vms_created of every return of run_iteration, in order
    cIntAt,       \* history: the position the KeyboardInterrupt was raised at ("" = none)
    cDeletes,     \* history: the kubectl delete operations issued, in order
    \* ---- datasource-clone driver: main ----
    dArgs,        \* args: start, end, concurrency
    dPc,          \* "create" | "monitor" | "exit" | "done"
    dCreating,    \* phase 1: namespaces whose create_vm future is not consumed yet
    dStartTimes,  \* start_times: its keys, in insertion order
    dQueue,       \* phase 2: submitted monitor_vm calls no worker has taken yet
    dRunning,     \* phase 2: monitor_vm calls in flight
    dResults,     \* results
    dExit,        \* status the process exits with (None while running)
    \* ---- migration driver: main ----
    gArgs,        \* args: namespaces (count), parallel, concurrency
    gPc,          \* "verify" | "migrate" | "finish" | "done"
    gQueue,       \* namespaces not migrated yet / submitted and not taken by a worker
    gRunning,     \* migrate_vm_sequential calls in flight
    gResults,     \* migration_results
    gExit,        \* status the process exits with (None while running)
    \* ---- migration of one VM: migrate_vm_sequential, wait_for_migration_complete ----
    mArgs,        \* migration_timeout, poll_interval, max_vmim_retries, max_migration_retries
    mPc,          \* position in migrate_vm_sequential / wait_for_migration_complete
    mSource,      \* migrate_vm_sequential: source_node
    mMigAttempt,  \* migrate_vm_sequential: migration_attempt
    mVmimAttempt, \* migrate_vm_sequential: attempt (VMIM creation)
    mVmimSleeps,  \* history: the time.sleep calls of the VMIM creation loop
    mOrig,        \* wait_for_migration_complete: original_node
    mElapsed,     \* wait_for_migration_complete: time.time() - start_time
    mSeenTs,      \* wait_for_migration_complete: <<start_ts, end_ts>> read on completion
    mWaitRet,     \* wait_for_migration_complete: returned tuple
    mRet,         \* migrate_vm_sequential: returned tuple
    mLog,         \* history: the calls made and their results, in order
    eNode,        \* cluster: the node the VMI runs on
    eVmim,        \* cluster: the VMIM object migration-<vm_name>
    eNodeAtTrigger, \* history: eNode when the last VMIM was created
    \* ---- failure-recovery driver: main, monitoring phase ----
    fArgs,        \* args: start, end, concurrency
    fPc,          \* "monitor" | "summary"
    fQueue,       \* submitted monitor_recovery calls no worker has taken yet
    fRunning,     \* monitor_recovery calls in flight
    fResults,     \* results
    \* ---- result statistics: save_results, print_summary_table ----
    sArgs,        \* skip_clone
    sResults,     \* results: outcome tuples (running_time, ping_time, clone_duration, success)
    sSaved,       \* what save_results wrote to the summary files
    sPrinted,     \* what print_summary_table printed under "Statistics"
    \* ---- datasource-clone driver: monitor_vm of one target ----
    tArgs,        \* poll_interval, ping_timeout, timeout of track_clone_progress (ms)
    tPc,          \* position in monitor_vm and the function it is in
    tNow,         \* datetime.now() - start_ts while track_clone_progress runs (ms)
    tElapsed,     \* track_clone_progress: elapsed
    tCloneStart,  \* track_clone_progress: clone_start (None = -1)
    tCloneEnd,    \* track_clone_progress: clone_end
    tInferred,    \* track_clone_progress: clone_inferred
    tTrackRet,    \* track_clone_progress: returned <<clone_start, clone_end, duration>>
    tFirstSeen,   \* history: first sampled phase that sets clone_start, and when
    tDvFailed,    \* history: the DataVolume was sampled in phase Failed
    tPingElapsed, \* wait_for_ping: elapsed_ping at the next loop test
    tOutcome,     \* monitor_vm: the returned tuple (which times it holds)
    \* ---- migration driver: submission order of the parallel scenario ----
    oArgs,        \* len(namespaces), args.interleaved_scheduling
    oPc,          \* "detect" | "reorder" | "submit"
    oNumNodes,    \* num_nodes
    oGroupSize,   \* group_size
    oOffset,      \* loop variable offset
    oI,           \* loop variable i (0-based index into namespaces)
    oOrder,       \* reordered_namespaces
    \* ---- utils.common: cleanup_test_namespaces ----
    kArgs,        \* len(namespaces), batch_size, vm_name given, delete_namespaces, dry_run
    kPc,          \* "resources" | "namespaces" | "done"
    kQueue,       \* submitted cleanup_namespace_resources calls no worker has taken yet
    kRunning,     \* cleanup_namespace_resources calls in flight
    kCompleted,   \* completed futures the dispatching thread has not consumed yet
    kConsumed,    \* history: futures consumed
    kStats,       \* the stats dictionary each completed call returned
    kOverall,     \* overall_stats
    kSeen,        \* history: the kinds of object the calls found
    kDeletes,     \* history: the kinds of object a delete was issued for
    \* ---- utils.common: confirm_cleanup ----
    qArgs,        \* num_namespaces, auto_yes
    qPc,          \* "start" | "input" | "done"
    qPrompts,     \* history: what input() returned at each prompt, in order
    qRet,         \* "none" | "True" | "False"
    \* ---- restart_vm (one VM) ----
    xArgs,        \* timeout of wait_for_vm_stopped
    xPc,          \* position in restart_vm
    xNow,         \* time.time()
    xStart,       \* start_time of wait_for_vm_stopped
    xHalted,      \* the stop patch was applied
    xVmi,         \* the VMI object exists
    xCmds,        \* history: the kubectl commands issued (stop, get, start)
    xEndedBy,     \* history: what ended wait_for_vm_stopped
    xRet          \* what restart_vm returned

retryVars == <<rFn, rMax, rDelay0, rAttempt, rPc, rOutcomes, rSleeps, rResult>>
pollVars  == <<wTimeout, wSchedTimeout, wNow, wStart, wSchedStart, wSamples, wPc, wRet, wRetAt>>
capVars   == <<cArgs, cPc, cIteration, cTotalVms, cCapReached, cEndReason, cResults, cExit, cDeletes,
               cCreated, cSuccVms, cRet, vPhase, vNames, vIdx, vSucc, vFailed, vReason,
               vInvoked, vOutcomes, cInterrupted, cIntAt, cCapSignal, cIterFailed, cReturned>>
cloneVars == <<dArgs, dPc, dCreating, dStartTimes, dQueue, dRunning, dResults, dExit>>
migVars   == <<gArgs, gPc, gQueue, gRunning, gResults, gExit>>
moveVars  == <<mArgs, mPc, mSource, mMigAttempt, mVmimAttempt, mVmimSleeps, mOrig, mElapsed, mSeenTs,
               mWaitRet, mRet, mLog, eNode, eVmim, eNodeAtTrigger>>
recVars   == <<fArgs, fPc, fQueue, fRunning, fResults>>
statVars  == <<sArgs, sResults, sSaved, sPrinted>>
monitorVars == <<tArgs, tPc, tNow, tElapsed, tCloneStart, tCloneEnd, tInferred, tTrackRet,
                  tFirstSeen, tDvFailed, tPingElapsed, tOutcome>>
orderVars == <<oArgs, oPc, oNumNodes, oGroupSize, oOffset, oI, oOrder>>
cleanupVars == <<kArgs, kPc, kQueue, kRunning, kCompleted, kConsumed, kStats, kOverall, kSeen, kDeletes>>
confirmVars == <<qArgs, qPc, qPrompts, qRet>>
restartVars == <<xArgs, xPc, xNow, xStart, xHalted, xVmi, xCmds, xEndedBy, xRet>>
vars == <<retryVars, pollVars, capVars, cloneVars, migVars, moveVars, recVars, statVars, monitorVars, orderVars, cleanupVars, confirmVars, restartVars>>

\* what a step of one part leaves alone
RetryFrame == UNCHANGED <<pollVars, capVars, cloneVars, migVars, moveVars, recVars, statVars, monitorVars, orderVars, cleanupVars, confirmVars, restartVars>>
PollFrame == UNCHANGED <<retryVars, capVars, cloneVars, migVars, moveVars, recVars, statVars, monitorVars, orderVars, cleanupVars, confirmVars, restartVars>>
CapFrame == UNCHANGED <<retryVars, pollVars, cloneVars, migVars, moveVars, recVars, statVars, monitorVars, orderVars, cleanupVars, confirmVars, restartVars>>
CloneFrame == UNCHANGED <<retryVars, pollVars, capVars, migVars, moveVars, recVars, statVars, monitorVars, orderVars, cleanupVars, confirmVars, restartVars>>
MigFrame == UNCHANGED <<retryVars, pollVars, capVars, cloneVars, moveVars, recVars, statVars, monitorVars, orderVars, cleanupVars, confirmVars, restartVars>>
MoveFrame == UNCHANGED <<retryVars, pollVars, capVars, cloneVars, migVars, recVars, statVars, monitorVars, orderVars, cleanupVars, confirmVars, restartVars>>
RecFrame == UNCHANGED <<retryVars, pollVars, capVars, cloneVars, migVars, moveVars, statVars, monitorVars, orderVars, cleanupVars, confirmVars, restartVars>>
StatFrame == UNCHANGED <<retryVars, pollVars, capVars, cloneVars, migVars, moveVars, recVars, monitorVars, orderVars, cleanupVars, confirmVars, restartVars>>
MonitorFrame == UNCHANGED <<retryVars, pollVars, capVars, cloneVars, migVars, moveVars, recVars, statVars, orderVars, cleanupVars, confirmVars, restartVars>>
OrderFrame == UNCHANGED <<retryVars, pollVars, capVars, cloneVars, migVars, moveVars, recVars, statVars, monitorVars, cleanupVars, confirmVars, restartVars>>
CleanupFrame == UNCHANGED <<retryVars, pollVars, capVars, cloneVars, migVars, moveVars, recVars, statVars, monitorVars, orderVars, confirmVars, restartVars>>
ConfirmFrame == UNCHANGED <<retryVars, pollVars, capVars, cloneVars, migVars, moveVars, recVars, statVars, monitorVars, orderVars, cleanupVars, restartVars>>
RestartFrame == UNCHANGED <<retryVars, pollVars, capVars, cloneVars, migVars, moveVars, recVars, statVars, monitorVars, orderVars, cleanupVars, confirmVars>>

None == -1

\* run_iteration has not returned / the results dictionary is not built
NoRet == <<FALSE, FALSE, None>>
NoResults == [iterations_completed |-> None, total_vms |-> None,
              capacity_reached |-> FALSE, end_reason |-> "not built"]

RECURSIVE Pow2(_)
Pow2(k) == IF k <= 0 THEN 1 ELSE 2 * Pow2(k - 1)

(***************************************************************************)
(* Text helpers: Python's str.lower() and the `in` substring test.         *)
(***************************************************************************)
LowerChar(c) ==
    CASE c = "A" -> "a" [] c = "B" -> "b" [] c = "C" -> "c" [] c = "D" -> "d"
      [] c = "E" -> "e" [] c = "F" -> "f" [] c = "G" -> "g" [] c = "H" -> "h"
      [] c = "I" -> "i" [] c = "J" -> "j" [] c = "K" -> "k" [] c = "L" -> "l"
      [] c = "M" -> "m" [] c = "N" -> "n" [] c = "O" -> "o" [] c = "P" -> "p"
      [] c = "Q" -> "q" [] c = "R" -> "r" [] c = "S" -> "s" [] c = "T" -> "t"
      [] c = "U" -> "u" [] c = "V" -> "v" [] c = "W" -> "w" [] c = "X" -> "x"
      [] c = "Y" -> "y" [] c = "Z" -> "z" [] OTHER -> c

RECURSIVE Lower(_)
Lower(s) ==
    IF Len(s) = 0 THEN ""
    ELSE LowerChar(SubSeq(s, 1, 1)) \o Lower(SubSeq(s, 2, Len(s)))

\* Python: p in s
Contains(p, s) ==
    \E i \in 1..(Len(s) - Len(p) + 1) : SubSeq(s, i, i + Len(p) - 1) = p

(***************************************************************************)
(* Create with retry: create_vm_with_data_volumes (capacity driver) and    *)
(* the per-namespace loop of create_vms_on_node (migration driver).        *)
(***************************************************************************)
MaxRetries == 3
MaxInitialDelay == 2

\* retryable_errors of create_vm_with_data_volumes
CapacityRetryableErrors ==
    { "context deadline exceeded", "connection refused", "connection reset",
      "timeout", "Internal error occurred", "webhook",
      "etcdserver: request timed out", "the object has been modified",
      "Operation cannot be fulfilled", "TLS handshake timeout", "i/o timeout" }

\* retryable_errors of create_vms_on_node
MigrationRetryableErrors ==
    { "context deadline exceeded", "webhook", "Internal error", "InternalError",
      "connection refused", "timeout", "temporarily unavailable" }

\* stderr texts kubectl create is taken to print
ErrorMessages ==
    { "failed calling webhook",
      "Timeout exceeded",
      "connection reset by peer",
      "temporarily unavailable",
      "already exists" }

\* capacity: any(err.lower() in error_msg.lower() ...); migration: any(err in error_msg ...)
IsRetryable(fn, msg) ==
    IF fn = "capacity"
    THEN \E e \in CapacityRetryableErrors : Contains(Lower(e), Lower(msg))
    ELSE \E e \in MigrationRetryableErrors : Contains(e, msg)

BackoffDelayDoc(d0, attempt) == d0 * Pow2(attempt)

\* delay = initial_delay * (2 ** (attempt - 1))
BackoffDelay(d0, attempt) == d0 * Pow2(attempt - 1)

RetryAllowedAlways(retryable, attempt, max) == attempt < max

\* if is_retryable and attempt < max_retries
RetryAllowed(retryable, attempt, max) == retryable /\ attempt < max

\* what one pass through the try block can do
\* str(e) of an exception raised by an attempt (Popen, communicate, open)
ExceptionMessages ==
    { "[Errno 2] No such file or directory: 'kubectl'",
      "[Errno 104] Connection reset by peer" }

AttemptOutcomes(fn) ==
    {[kind |-> "ok", msg |-> ""]}
    \cup {[kind |-> "exception", msg |-> m] : m \in ExceptionMessages}
    \cup {[kind |-> "nonzero", msg |-> m] : m \in ErrorMessages}
    \cup (IF fn = "migration" THEN {[kind |-> "yamlfail", msg |-> ""]} ELSE {})

InitRetry ==
    /\ rFn \in {"capacity", "migration"}
    /\ rMax \in 0..MaxRetries
    /\ rDelay0 \in 1..MaxInitialDelay
    /\ rAttempt = 1
    /\ rPc = "loop"
    /\ rOutcomes = <<>>
    /\ rSleeps = <<>>
    /\ rResult = "none"

RetrySleep(attempt) ==
    Append(rSleeps, [after |-> attempt, delay |-> BackoffDelay(rDelay0, attempt)])

RetryReturn(res) ==
    /\ rResult' = res
    /\ rPc' = "done"
    /\ UNCHANGED <<rAttempt, rSleeps>>

RetryAgain ==
    /\ rSleeps' = RetrySleep(rAttempt)
    /\ rAttempt' = rAttempt + 1
    /\ UNCHANGED <<rResult, rPc>>

\* one iteration of `for attempt in range(1, max_retries + 1)` of
\* create_vm_with_data_volumes
CapCreateAttempt(o) ==
    /\ rFn = "capacity" /\ rPc = "loop" /\ rAttempt <= rMax
    /\ rOutcomes' = Append(rOutcomes, o)
    /\ CASE o.kind = "ok" -> RetryReturn("created")
         [] o.kind = "nonzero" ->
              IF RetryAllowed(IsRetryable(rFn, o.msg), rAttempt, rMax)
              THEN RetryAgain
              ELSE RetryReturn("failed")
         [] OTHER ->
              IF rAttempt < rMax THEN RetryAgain ELSE RetryReturn("failed")
    /\ UNCHANGED <<rFn, rMax, rDelay0>>
    /\ RetryFrame

\* the statements after the loop of create_vm_with_data_volumes
CapCreateLoopExit ==
    /\ rFn = "capacity" /\ rPc = "loop" /\ rAttempt > rMax
    /\ RetryReturn("failed")
    /\ UNCHANGED <<rFn, rMax, rDelay0, rOutcomes>>
    /\ RetryFrame

\* one iteration of `for attempt in range(1, max_retries + 1)` of create_vms_on_node
MigCreateAttempt(o) ==
    /\ rFn = "migration" /\ rPc = "loop" /\ rAttempt <= rMax
    /\ rOutcomes' = Append(rOutcomes, o)
    /\ CASE o.kind = "ok" -> RetryReturn("created")
         [] o.kind = "yamlfail" -> RetryReturn("failed")
         [] o.kind = "nonzero" ->
              IF RetryAllowed(IsRetryable(rFn, o.msg), rAttempt, rMax)
              THEN RetryAgain
              ELSE IF IsRetryable(rFn, o.msg)
                   THEN /\ rAttempt' = rAttempt + 1
                        /\ UNCHANGED <<rSleeps, rResult, rPc>>
                   ELSE RetryReturn("failed")
         [] OTHER ->
              IF rAttempt < rMax
              THEN RetryAgain
              ELSE /\ rAttempt' = rAttempt + 1
                   /\ UNCHANGED <<rSleeps, rResult, rPc>>
    /\ UNCHANGED <<rFn, rMax, rDelay0>>
    /\ RetryFrame

\* create_vms_on_node: the loop ran out; results[ns] = success (False)
MigCreateLoopExit ==
    /\ rFn = "migration" /\ rPc = "loop" /\ rAttempt > rMax
    /\ RetryReturn("failed")
    /\ UNCHANGED <<rFn, rMax, rDelay0, rOutcomes>>
    /\ RetryFrame

NextRetry ==
    \/ \E o \in AttemptOutcomes("capacity") : CapCreateAttempt(o)
    \/ CapCreateLoopExit
    \/ \E o \in AttemptOutcomes("migration") : MigCreateAttempt(o)
    \/ MigCreateLoopExit

(***************************************************************************)
(* wait_for_vm_running of the capacity driver.  Time is in seconds; a      *)
(* status query takes 0..MaxCallDur seconds, time.sleep(5) takes 5.        *)
(***************************************************************************)
PollSleep == 5
MaxCallDur == 1

WaitTimeouts == {12, 22}
SchedTimeouts == {6, 10}

ErrorStatuses == {"CrashLoopBackOff", "ErrImagePull", "Error"}

\* printableStatus values get_vm_status is taken to return
VmStatuses == {"Running", "Scheduling", "Starting", "ErrorUnschedulable"} \cup ErrorStatuses

InitPoll ==
    /\ wTimeout \in WaitTimeouts
    /\ wSchedTimeout \in SchedTimeouts
    /\ wNow = 0
    /\ wStart = 0
    /\ wSchedStart = None
    /\ wSamples = <<>>
    /\ wPc = "loop"
    /\ wRet = <<FALSE, "none">>
    /\ wRetAt = None

SchedulingExpiredAt(now, schedStart, schedTimeout) == now - schedStart >= schedTimeout

\* elif time.time() - scheduling_start > scheduling_timeout
SchedulingExpired(now, schedStart, schedTimeout) == now - schedStart > schedTimeout

KeepSchedStart(status, schedStart, now) ==
    IF status = "Scheduling" /\ schedStart = None THEN now ELSE schedStart

\* scheduling_start after the `if status == 'Scheduling': ... else: ...` statement
NextSchedStart(status, schedStart, now) ==
    IF status = "Scheduling"
    THEN IF schedStart = None THEN now ELSE schedStart
    ELSE None

\* ErrorUnschedulable handled like any status that is neither Running nor an error
VerdictWithoutCapacity(status, schedStart, now, schedTimeout) ==
    IF status = "Running" THEN <<TRUE, "">>
    ELSE IF /\ status = "Scheduling" /\ schedStart # None
            /\ SchedulingExpired(now, schedStart, schedTimeout)
         THEN <<FALSE, "scheduling">>
    ELSE IF status \in ErrorStatuses THEN <<FALSE, "error">>
    ELSE <<FALSE, "none">>

\* the value the loop body returns for this sample, or <<FALSE, "none">> to go on
SampleVerdict(status, schedStart, now, schedTimeout) ==
    IF status = "Running" THEN <<TRUE, "">>
    ELSE IF /\ status = "Scheduling" /\ schedStart # None
            /\ SchedulingExpired(now, schedStart, schedTimeout)
         THEN <<FALSE, "scheduling">>
    ELSE IF status = "ErrorUnschedulable" THEN <<FALSE, "capacity">>
    ELSE IF status \in ErrorStatuses THEN <<FALSE, "error">>
    ELSE <<FALSE, "none">>

LoopContinuesInclusive(now, start, timeout) == now - start <= timeout

\* while time.time() - start_time < timeout
LoopContinues(now, start, timeout) == now - start < timeout

\* one pass through the body of `while time.time() - start_time < timeout`
WaitSample(status, d) ==
    /\ wPc = "loop"
    /\ LoopContinues(wNow, wStart, wTimeout)
    /\ LET now == wNow + d
           verdict == SampleVerdict(status, wSchedStart, now, wSchedTimeout)
       IN /\ wSamples' = Append(wSamples, <<status, now, wNow>>)
          /\ IF verdict # <<FALSE, "none">>
             THEN /\ wRet' = verdict
                  /\ wRetAt' = now
                  /\ wPc' = "done"
                  /\ wNow' = now
                  /\ wSchedStart' = IF status = "Running" \/ verdict[2] = "scheduling"
                                    THEN wSchedStart
                                    ELSE NextSchedStart(status, wSchedStart, now)
             ELSE /\ wSchedStart' = NextSchedStart(status, wSchedStart, now)
                  /\ wNow' = now + PollSleep
                  /\ UNCHANGED <<wRet, wRetAt, wPc>>
    /\ UNCHANGED <<wTimeout, wSchedTimeout, wStart>>
    /\ PollFrame

\* the loop condition fails: return False, 'timeout'
WaitTimedOut ==
    /\ wPc = "loop"
    /\ ~LoopContinues(wNow, wStart, wTimeout)
    /\ wRet' = <<FALSE, "timeout">>
    /\ wRetAt' = wNow
    /\ wPc' = "done"
    /\ UNCHANGED <<wTimeout, wSchedTimeout, wNow, wStart, wSchedStart, wSamples>>
    /\ PollFrame

NextPoll ==
    \/ \E st \in VmStatuses, d \in 0..MaxCallDur : WaitSample(st, d)
    \/ WaitTimedOut

(***************************************************************************)
(* Capacity driver: main's iteration loop, run_iteration and               *)
(* wait_for_vms_running.  A VM of an iteration is named by its index i of  *)
(* f"{args.vm_name}-{iteration}-{i}".  The per-VM wait is represented by   *)
(* what wait_for_vm_running returns (or that it raised).                   *)
(***************************************************************************)
MaxVMs == 4
MaxIter == 1

\* iterations a run without --max-iterations is followed for
IterCap == MaxIter + 1

CapacitySignals == {"scheduling", "capacity"}

\* "ok" = (True, ''); a reason r = (False, r); "raise" = an exception
WaitOutcomes == {"ok", "timeout", "error", "raise"} \cup CapacitySignals

\* Python: seq.index(x)
Index(seq, x) ==
    CHOOSE i \in 1..Len(seq) : seq[i] = x /\ \A j \in 1..(i - 1) : seq[j] # x

Count(seq, x) == Cardinality({i \in 1..Len(seq) : seq[i] = x})

InitCap ==
    /\ cArgs \in [vms : 1..MaxVMs, max_iterations : 0..MaxIter,
                  skip_resize_job : BOOLEAN, skip_restart_job : BOOLEAN,
                  skip_snapshot_job : BOOLEAN, cleanup : BOOLEAN,
                  cleanup_only : BOOLEAN]
    /\ cPc = "m_start"
    /\ cIteration = 1
    /\ cTotalVms = 0
    /\ cCapReached = FALSE
    /\ cEndReason = "unknown"
    /\ cResults = NoResults
    /\ cExit = None
    /\ cCreated = <<>>
    /\ cSuccVms = <<>>
    /\ cRet = NoRet
    /\ vPhase = 0
    /\ vNames = <<>>
    /\ vIdx = 1
    /\ vSucc = <<>>
    /\ vFailed = <<>>
    /\ vReason = ""
    /\ vInvoked = <<>>
    /\ vOutcomes = <<>>
    /\ cInterrupted = FALSE
    /\ cCapSignal = FALSE
    /\ cIterFailed = FALSE
    /\ cReturned = <<>>
    /\ cIntAt = ""
    /\ cDeletes = <<>>

mainVars == <<cIteration, cTotalVms, cCapReached, cEndReason, cResults, cExit, cDeletes>>
waitVars == <<vPhase, vNames, vIdx, vSucc, vFailed, vReason, vInvoked, vOutcomes>>

\* cleanup_namespace: `kubectl delete namespace` when the namespace exists
CleanupNamespace(deletes, exists) ==
    IF exists THEN Append(deletes, "namespace") ELSE deletes

\* main: --cleanup-only: cleanup_namespace, then return 0 or 1
CleanupOnly(exists, ok) ==
    /\ cPc = "m_start"
    /\ cArgs.cleanup_only
    /\ cDeletes' = CleanupNamespace(cDeletes, exists)
    /\ cExit' = IF ok \/ ~exists THEN 0 ELSE 1
    /\ cPc' = "done"
    /\ UNCHANGED <<cArgs, cIteration, cTotalVms, cCapReached, cEndReason, cResults,
                   cCreated, cSuccVms, cRet, waitVars, cInterrupted, cIntAt, cCapSignal,
                   cIterFailed, cReturned>>
    /\ CapFrame

\* main: create_namespace, then the loop (or return 1)
MainStart(nsOk) ==
    /\ cPc = "m_start"
    /\ ~cArgs.cleanup_only
    /\ UNCHANGED cDeletes
    /\ IF nsOk
       THEN cPc' = "m_loop" /\ UNCHANGED cExit
       ELSE cPc' = "done" /\ cExit' = 1
    /\ UNCHANGED <<cArgs, cIteration, cTotalVms, cCapReached, cEndReason, cResults,
                   cCreated, cSuccVms, cRet, waitVars, cInterrupted, cIntAt, cCapSignal, cIterFailed, cReturned>>
    /\ CapFrame

CapReachedEarly(maxIterations, iteration) ==
    maxIterations > 0 /\ iteration >= maxIterations

\* if args.max_iterations > 0 and iteration > args.max_iterations
IterationCapHit(maxIterations, iteration) ==
    maxIterations > 0 /\ iteration > maxIterations

\* main: top of `while True`: the max-iterations check, else enter run_iteration
MainLoopTop ==
    /\ cPc = "m_loop"
    /\ IF IterationCapHit(cArgs.max_iterations, cIteration)
       THEN /\ cEndReason' = "max_iterations"
            /\ cPc' = "m_report"
            /\ UNCHANGED <<cCreated, cSuccVms, cRet>>
       ELSE /\ cIteration <= IterCap
            /\ cPc' = "create"
            /\ cCreated' = <<>>
            /\ cSuccVms' = <<>>
            /\ cRet' = NoRet
            /\ UNCHANGED cEndReason
    /\ UNCHANGED <<cArgs, cIteration, cTotalVms, cCapReached, cResults, cExit, cDeletes,
                   waitVars, cInterrupted, cIntAt, cCapSignal, cIterFailed, cReturned>>
    /\ CapFrame

\* run_iteration returns ret to main
IterReturn(ret) ==
    /\ cRet' = ret
    /\ cReturned' = Append(cReturned, ret[3])
    /\ cPc' = "m_ret"
    /\ cIterFailed' = (cIterFailed \/ ~ret[1])

\* wait_for_vms_running is entered with vm_names = names
BeginWait(phase, names) ==
    /\ vPhase' = phase
    /\ vNames' = names
    /\ vIdx' = 1
    /\ vSucc' = <<>>
    /\ vFailed' = <<>>
    /\ vReason' = ""
    /\ vInvoked' = <<>>
    /\ vOutcomes' = <<>>
    /\ cPc' = IF names = <<>>
              THEN (IF phase = 1 THEN "after_wait1" ELSE "after_wait3")
              ELSE (IF phase = 1 THEN "wait1" ELSE "wait3")

\* run_iteration, phase 1: one pass of `for vm_name in vm_names` (create)
CreateVm(ok) ==
    /\ cPc = "create"
    /\ LET created == Append(cCreated, Len(cCreated) + 1)
       IN IF ok
          THEN /\ cCreated' = created
               /\ IF Len(created) = cArgs.vms
                  THEN BeginWait(1, created)
                  ELSE cPc' = "create" /\ UNCHANGED waitVars
               /\ UNCHANGED <<cRet, cIterFailed, cReturned>>
          ELSE /\ IterReturn(<<FALSE, FALSE, 0>>)
               /\ UNCHANGED <<cCreated, waitVars>>
    /\ UNCHANGED <<cArgs, mainVars, cSuccVms, cInterrupted, cIntAt, cCapSignal>>
    /\ CapFrame

SkippedFrom(names, name) == SubSeq(names, Index(names, name), Len(names))

\* vm_names[vm_names.index(vm_name) + 1:]
SkippedTail(names, name) == SubSeq(names, Index(names, name) + 1, Len(names))

StopsOnSchedulingOnly(reason) == reason = "scheduling"

\* if reason in ('scheduling', 'capacity')
StopsWaiting(reason) == reason \in CapacitySignals

\* wait_for_vms_running: one pass of `for vm_name in vm_names`
WaitOne(out) ==
    /\ cPc \in {"wait1", "wait3"}
    /\ vIdx <= Len(vNames)
    /\ LET name == vNames[vIdx]
           failed1 == Append(vFailed, name)
           stop == out # "ok" /\ out # "raise" /\ StopsWaiting(out)
           remaining == Len(vNames) - Len(vSucc) - Len(failed1)
       IN /\ vInvoked' = Append(vInvoked, name)
          /\ vOutcomes' = Append(vOutcomes, out)
          /\ vSucc' = IF out = "ok" THEN Append(vSucc, name) ELSE vSucc
          /\ vFailed' = IF out = "ok" THEN vFailed
                        ELSE IF stop /\ remaining > 0
                             THEN failed1 \o SkippedTail(vNames, name)
                             ELSE failed1
          /\ vReason' = IF out = "ok" THEN vReason
                        ELSE IF out = "raise" THEN "error" ELSE out
          /\ cCapSignal' = (cCapSignal \/ out \in CapacitySignals)
          /\ IF stop \/ vIdx = Len(vNames)
             THEN /\ cPc' = IF cPc = "wait1" THEN "after_wait1" ELSE "after_wait3"
                  /\ UNCHANGED vIdx
             ELSE /\ vIdx' = vIdx + 1
                  /\ UNCHANGED cPc
    /\ UNCHANGED <<cArgs, mainVars, cCreated, cSuccVms, cRet, vPhase, vNames,
                   cInterrupted, cIntAt, cIterFailed, cReturned>>
    /\ CapFrame

TreatAsError(reason) == FALSE

\* if failure_reason in ('scheduling', 'capacity')
IsCapacityReason(reason) == reason \in CapacitySignals

\* run_iteration, phase 1: after wait_for_vms_running returned
AfterWait1 ==
    /\ cPc = "after_wait1"
    /\ cSuccVms' = vSucc
    /\ IF vFailed # <<>>
       THEN IterReturn(IF IsCapacityReason(vReason)
                       THEN <<FALSE, TRUE, Len(vSucc)>>
                       ELSE <<FALSE, FALSE, Len(vSucc)>>)
       ELSE cPc' = "resize" /\ UNCHANGED <<cRet, cIterFailed, cReturned>>
    /\ UNCHANGED <<cArgs, mainVars, cCreated, waitVars, cInterrupted, cIntAt, cCapSignal>>
    /\ CapFrame

\* run_iteration, phase 2 (resize), as a whole
Resize(ok) ==
    /\ cPc = "resize"
    /\ IF cArgs.skip_resize_job \/ ok
       THEN cPc' = "restart" /\ UNCHANGED <<cRet, cIterFailed, cReturned>>
       ELSE IterReturn(<<FALSE, FALSE, Len(cSuccVms)>>)
    /\ UNCHANGED <<cArgs, mainVars, cCreated, cSuccVms, waitVars, cInterrupted, cIntAt, cCapSignal>>
    /\ CapFrame

\* an exception leaves run_iteration (increment_size on an unparsable size)
\* and reaches main's `except Exception`
IterationRaises ==
    /\ cPc = "resize"
    /\ ~cArgs.skip_resize_job
    /\ cEndReason' = "error"
    /\ cIterFailed' = TRUE
    /\ cPc' = "m_report"
    /\ UNCHANGED cReturned
    /\ UNCHANGED <<cArgs, cIteration, cTotalVms, cCapReached, cResults, cExit, cDeletes,
                   cCreated, cSuccVms, cRet, waitVars, cInterrupted, cIntAt, cCapSignal>>
    /\ CapFrame

\* run_iteration, phase 3: the restart loop, then wait_for_vms_running is entered
Restart(ok) ==
    /\ cPc = "restart"
    /\ IF cArgs.skip_restart_job
       THEN cPc' = "snapshot" /\ UNCHANGED <<cRet, cIterFailed, cReturned, waitVars>>
       ELSE IF ok
            THEN BeginWait(3, cSuccVms) /\ UNCHANGED <<cRet, cIterFailed, cReturned>>
            ELSE IterReturn(<<FALSE, FALSE, Len(cSuccVms)>>) /\ UNCHANGED waitVars
    /\ UNCHANGED <<cArgs, mainVars, cCreated, cSuccVms, cInterrupted, cIntAt, cCapSignal>>
    /\ CapFrame

\* run_iteration, phase 3: after wait_for_vms_running returned
AfterWait3 ==
    /\ cPc = "after_wait3"
    /\ cSuccVms' = vSucc
    /\ IF vFailed # <<>>
       THEN IterReturn(<<FALSE, FALSE, Len(vSucc)>>)
       ELSE cPc' = "snapshot" /\ UNCHANGED <<cRet, cIterFailed, cReturned>>
    /\ UNCHANGED <<cArgs, mainVars, cCreated, waitVars, cInterrupted, cIntAt, cCapSignal>>
    /\ CapFrame

\* run_iteration, phase 4 (snapshots), as a whole, and the final return
Snapshot(ok) ==
    /\ cPc = "snapshot"
    /\ IF cArgs.skip_snapshot_job \/ ok
       THEN IterReturn(<<TRUE, FALSE, Len(cSuccVms)>>)
       ELSE IterReturn(<<FALSE, FALSE, Len(cSuccVms)>>)
    /\ UNCHANGED <<cArgs, mainVars, cCreated, cSuccVms, waitVars, cInterrupted, cIntAt, cCapSignal>>
    /\ CapFrame

LastCreated(total, created) == created

\* total_vms += vms_created
AddTotal(total, created) == total + created

\* main: total_vms += vms_created
MainAddTotal ==
    /\ cPc = "m_ret"
    /\ cTotalVms' = AddTotal(cTotalVms, cRet[3])
    /\ cPc' = "m_branch"
    /\ UNCHANGED <<cArgs, cIteration, cCapReached, cEndReason, cResults, cExit, cDeletes,
                   cCreated, cSuccVms, cRet, waitVars, cInterrupted, cIntAt, cCapSignal, cIterFailed, cReturned>>
    /\ CapFrame

\* main: `if not success: ... else: iteration += 1`, up to the first assignment
MainBranch ==
    /\ cPc = "m_branch"
    /\ IF ~cRet[1]
       THEN IF cRet[2]
            THEN /\ cCapReached' = TRUE
                 /\ cPc' = "m_setreason"
                 /\ UNCHANGED <<cEndReason, cIteration>>
            ELSE /\ cEndReason' = "error"
                 /\ cPc' = "m_break"
                 /\ UNCHANGED <<cCapReached, cIteration>>
       ELSE /\ cIteration' = cIteration + 1
            /\ cPc' = "m_sleep"
            /\ UNCHANGED <<cCapReached, cEndReason>>
    /\ UNCHANGED <<cArgs, cTotalVms, cResults, cExit, cDeletes,
                   cCreated, cSuccVms, cRet, waitVars, cInterrupted, cIntAt, cCapSignal, cIterFailed, cReturned>>
    /\ CapFrame

\* main: end_reason = 'capacity'
MainSetReason ==
    /\ cPc = "m_setreason"
    /\ cEndReason' = "capacity"
    /\ cPc' = "m_break"
    /\ UNCHANGED <<cArgs, cIteration, cTotalVms, cCapReached, cResults, cExit, cDeletes,
                   cCreated, cSuccVms, cRet, waitVars, cInterrupted, cIntAt, cCapSignal, cIterFailed, cReturned>>
    /\ CapFrame

\* main: the log lines of the failed iteration, then break
MainBreak ==
    /\ cPc = "m_break"
    /\ cPc' = "m_report"
    /\ UNCHANGED <<cArgs, mainVars, cCreated, cSuccVms, cRet, waitVars,
                   cInterrupted, cIntAt, cCapSignal, cIterFailed, cReturned>>
    /\ CapFrame

\* main: time.sleep(5) between iterations
MainSleep ==
    /\ cPc = "m_sleep"
    /\ cPc' = "m_loop"
    /\ UNCHANGED <<cArgs, mainVars, cCreated, cSuccVms, cRet, waitVars,
                   cInterrupted, cIntAt, cCapSignal, cIterFailed, cReturned>>
    /\ CapFrame

\* positions inside main's try block
TryPcs == {"m_loop", "create", "wait1", "after_wait1", "resize", "restart", "wait3",
           "after_wait3", "snapshot", "m_ret", "m_branch", "m_setreason", "m_break",
           "m_sleep"}

KeepsReason(reason) == reason

\* except KeyboardInterrupt: end_reason = 'interrupted'
InterruptReason(reason) == "interrupted"

\* main: except KeyboardInterrupt
Interrupt ==
    /\ cPc \in TryPcs
    /\ cEndReason' = InterruptReason(cEndReason)
    /\ cInterrupted' = TRUE
    /\ cIntAt' = cPc
    /\ cPc' = "m_report"
    /\ UNCHANGED <<cArgs, cIteration, cTotalVms, cCapReached, cResults, cExit, cDeletes,
                   cCreated, cSuccVms, cRet, waitVars, cCapSignal, cIterFailed, cReturned>>
    /\ CapFrame

\* main: `return 0` after the report, passed to sys.exit
ExitStatus(reason) == 0

CleanupAlways(args) == TRUE

\* if args.cleanup
CleanupRequested(args) == args.cleanup

CountsCurrent(iteration, reason) == iteration

\* 'iterations_completed': iteration - 1 if end_reason != 'capacity' else iteration
IterationsCompleted(iteration, reason) ==
    IF reason # "capacity" THEN iteration - 1 ELSE iteration

\* main: the results dictionary, the report, the optional cleanup, return 0
MainReport(exists) ==
    /\ cPc = "m_report"
    /\ cDeletes' = IF CleanupRequested(cArgs)
                   THEN CleanupNamespace(cDeletes, exists) ELSE cDeletes
    /\ cResults' = [iterations_completed |-> IterationsCompleted(cIteration, cEndReason),
                    total_vms |-> cTotalVms,
                    capacity_reached |-> cCapReached,
                    end_reason |-> cEndReason]
    /\ cExit' = ExitStatus(cEndReason)
    /\ cPc' = "done"
    /\ UNCHANGED <<cArgs, cIteration, cTotalVms, cCapReached, cEndReason,
                   cCreated, cSuccVms, cRet, waitVars, cInterrupted, cIntAt, cCapSignal, cIterFailed, cReturned>>
    /\ CapFrame

NextCap ==
    \/ \E exists \in BOOLEAN, ok \in BOOLEAN : CleanupOnly(exists, ok)
    \/ \E ok \in BOOLEAN : MainStart(ok)
    \/ MainLoopTop
    \/ \E ok \in BOOLEAN : CreateVm(ok)
    \/ \E out \in WaitOutcomes : WaitOne(out)
    \/ AfterWait1
    \/ \E ok \in BOOLEAN : Resize(ok)
    \/ IterationRaises
    \/ \E ok \in BOOLEAN : Restart(ok)
    \/ AfterWait3
    \/ \E ok \in BOOLEAN : Snapshot(ok)
    \/ MainAddTotal
    \/ MainBranch
    \/ MainSetReason
    \/ MainBreak
    \/ MainSleep
    \/ Interrupt
    \/ \E exists \in BOOLEAN : MainReport(exists)

(***************************************************************************)
(* Datasource-clone driver: main, phase 1 (create) and phase 2 (monitor).  *)
(* A namespace is named by its index in args.start..args.end; an outcome   *)
(* tuple is represented by its namespace and its success field.            *)
(***************************************************************************)
MaxTargets == 3
MaxConcurrency == 2

RECURSIVE Range(_, _)
\* [i for i in range(a, b + 1)]
Range(a, b) == IF a > b THEN <<>> ELSE <<a>> \o Range(a + 1, b)

SeqToSet(seq) == {seq[i] : i \in 1..Len(seq)}

InitClone ==
    /\ dArgs \in [start : {1}, end : 1..MaxTargets, concurrency : 1..MaxConcurrency]
    /\ dPc = "create"
    /\ dCreating = SeqToSet(Range(dArgs.start, dArgs.end))
    /\ dStartTimes = <<>>
    /\ dQueue = <<>>
    /\ dRunning = {}
    /\ dResults = <<>>
    /\ dExit = None

\* try: ns, ts = future.result(); start_times[ns] = ts / except: logger.error
RecordCreate(startTimes, ns, created) ==
    IF created THEN Append(startTimes, ns) ELSE startTimes

\* phase 1: one pass of `for future in as_completed(futures)`; after the last
\* one, phase 2 submits monitor_vm for every item of start_times
CloneCreateDone(ns, created) ==
    /\ dPc = "create"
    /\ ns \in dCreating
    /\ dCreating' = dCreating \ {ns}
    /\ dStartTimes' = RecordCreate(dStartTimes, ns, created)
    /\ IF dCreating' = {}
       THEN /\ dQueue' = dStartTimes'
            /\ dPc' = IF dStartTimes' = <<>> THEN "exit" ELSE "monitor"
       ELSE UNCHANGED <<dQueue, dPc>>
    /\ UNCHANGED <<dArgs, dRunning, dResults, dExit>>
    /\ CloneFrame

\* phase 2: ThreadPoolExecutor(max_workers=args.concurrency)
CloneMonitorWorkers(args) == args.concurrency

\* phase 2: a free worker of the pool takes the next submitted monitor_vm call
CloneMonitorStart ==
    /\ dPc = "monitor"
    /\ dQueue # <<>>
    /\ Cardinality(dRunning) < CloneMonitorWorkers(dArgs)
    /\ dRunning' = dRunning \cup {Head(dQueue)}
    /\ dQueue' = Tail(dQueue)
    /\ UNCHANGED <<dArgs, dPc, dCreating, dStartTimes, dResults, dExit>>
    /\ CloneFrame

\* phase 2: a monitor_vm call ends and its future is consumed:
\* results.append(result), or results.append((ns, None, None, None, False))
CloneMonitorDone(ns, success) ==
    /\ dPc = "monitor"
    /\ ns \in dRunning
    /\ dRunning' = dRunning \ {ns}
    /\ dResults' = Append(dResults, [ns |-> ns, success |-> success])
    /\ dPc' = IF dRunning' = {} /\ dQueue = <<>> THEN "exit" ELSE "monitor"
    /\ UNCHANGED <<dArgs, dCreating, dStartTimes, dQueue, dExit>>
    /\ CloneFrame

\* every outcome counted as failed
EveryOutcomeFailed(results) == Len(results)

\* failed_count = sum(1 for r in results if not r[4])
FailedCount(results) == Cardinality({i \in 1..Len(results) : ~results[i].success})

\* save_results: total = len(results); successful = sum(1 for r in results if r[4]);
\* failed = total - successful, as they enter the summary
SummaryCounts(results) ==
    LET total == Len(results)
        successful == Cardinality({i \in 1..Len(results) : results[i].success})
    IN [total_vms |-> total, successful |-> successful, failed |-> total - successful]

\* sys.exit(0 if failed_count == 0 else 1)
CloneExit ==
    /\ dPc = "exit"
    /\ dExit' = IF FailedCount(dResults) = 0 THEN 0 ELSE 1
    /\ dPc' = "done"
    /\ UNCHANGED <<dArgs, dCreating, dStartTimes, dQueue, dRunning, dResults>>
    /\ CloneFrame

NextClone ==
    \/ \E ns \in 1..MaxTargets, ok \in BOOLEAN : CloneCreateDone(ns, ok)
    \/ CloneMonitorStart
    \/ \E ns \in 1..MaxTargets, ok \in BOOLEAN : CloneMonitorDone(ns, ok)
    \/ CloneExit

(***************************************************************************)
(* Migration driver: main from the VM verification to the process exit,    *)
(* for the sequential and the parallel scenario.  An outcome tuple is      *)
(* represented by its namespace and its success field.                     *)
(***************************************************************************)
\* the branch of main's `if ... elif args.evacuate: ... elif args.round_robin:`
Scenario(args) ==
    IF ~args.parallel /\ ~args.evacuate /\ ~args.round_robin THEN "sequential"
    ELSE IF args.parallel /\ ~args.evacuate /\ ~args.round_robin THEN "parallel"
    ELSE IF args.evacuate THEN "evacuate"
    ELSE "round_robin"

InitMig ==
    /\ gArgs \in [namespaces : 1..MaxTargets, parallel : BOOLEAN, evacuate : BOOLEAN,
                  round_robin : BOOLEAN, concurrency : 1..MaxConcurrency]
    /\ gPc = "verify"
    /\ gQueue = Range(1, gArgs.namespaces)
    /\ gRunning = {}
    /\ gResults = <<>>
    /\ gExit = None

\* phase 1: no VM is running -> sys.exit(1); else go on to the migration phase
MigVerify(anyRunning) ==
    /\ gPc = "verify"
    /\ IF anyRunning
       THEN /\ gPc' = IF Scenario(gArgs) \in {"evacuate", "round_robin"}
                      THEN "prepare" ELSE "migrate"
            /\ UNCHANGED gExit
       ELSE gPc' = "done" /\ gExit' = 1
    /\ UNCHANGED <<gArgs, gQueue, gRunning, gResults>>
    /\ MigFrame

\* the namespaces of `namespaces` that are in onNode, in order
RECURSIVE Keep(_, _)
Keep(seq, onNode) ==
    IF seq = <<>> THEN <<>>
    ELSE (IF Head(seq) \in onNode THEN <<Head(seq)>> ELSE <<>>) \o Keep(Tail(seq), onNode)

\* scenario 3: vms_to_evacuate = get_vms_on_node(...), sys.exit(1) when it is
\* empty or no other node is available; scenario 4: sys.exit(1) with fewer than
\* two worker nodes; then the calls are submitted to the pool
MigPrepare(onNode, nodesOk) ==
    /\ gPc = "prepare"
    /\ LET targets == IF Scenario(gArgs) = "evacuate" THEN Keep(gQueue, onNode) ELSE gQueue
       IN IF targets = <<>> \/ ~nodesOk
          THEN gPc' = "done" /\ gExit' = 1 /\ UNCHANGED gQueue
          ELSE gPc' = "migrate" /\ gQueue' = targets /\ UNCHANGED gExit
    /\ UNCHANGED <<gArgs, gRunning, gResults>>
    /\ MigFrame

AfterMigration(queue, running) ==
    IF queue = <<>> /\ running = {} THEN "finish" ELSE "migrate"

\* scenario 1: one pass of `for ns in namespaces`
MigrateSequential(success) ==
    /\ gPc = "migrate" /\ Scenario(gArgs) = "sequential"
    /\ gQueue # <<>>
    /\ gResults' = Append(gResults, [ns |-> Head(gQueue), success |-> success])
    /\ gQueue' = Tail(gQueue)
    /\ gPc' = AfterMigration(gQueue', gRunning)
    /\ UNCHANGED <<gArgs, gRunning, gExit>>
    /\ MigFrame

MigWorkersPerTarget(args) == args.namespaces

\* scenarios 2, 3, 4: ThreadPoolExecutor(max_workers=args.concurrency)
MigMaxWorkers(args) == args.concurrency

\* scenarios 2, 3, 4: a free worker of the pool takes the next submitted
\* migrate_vm_sequential call
MigrateStart ==
    /\ gPc = "migrate" /\ Scenario(gArgs) # "sequential"
    /\ gQueue # <<>>
    /\ Cardinality(gRunning) < MigMaxWorkers(gArgs)
    /\ gRunning' = gRunning \cup {Head(gQueue)}
    /\ gQueue' = Tail(gQueue)
    /\ UNCHANGED <<gArgs, gPc, gResults, gExit>>
    /\ MigFrame

\* scenarios 2, 3, 4: a call ends and its future is consumed:
\* migration_results.append of its result, or of (ns, False, 0.0, None, None,
\* None) when it raised
MigrateDone(ns, success) ==
    /\ gPc = "migrate" /\ Scenario(gArgs) # "sequential"
    /\ ns \in gRunning
    /\ gRunning' = gRunning \ {ns}
    /\ gResults' = Append(gResults, [ns |-> ns, success |-> success])
    /\ gPc' = AfterMigration(gQueue, gRunning')
    /\ UNCHANGED <<gArgs, gQueue, gExit>>
    /\ MigFrame

\* main returns after "Migration test complete!": the interpreter exits with 0
MigExitStatus(results) == 0

\* results table, statistics, optional save and cleanup, end of main
MigFinish ==
    /\ gPc = "finish"
    /\ gExit' = MigExitStatus(gResults)
    /\ gPc' = "done"
    /\ UNCHANGED <<gArgs, gQueue, gRunning, gResults>>
    /\ MigFrame

NextMig ==
    \/ \E ok \in BOOLEAN : MigVerify(ok)
    \/ \E onNode \in SUBSET (1..MaxTargets), ok \in BOOLEAN : MigPrepare(onNode, ok)
    \/ \E ok \in BOOLEAN : MigrateSequential(ok)
    \/ MigrateStart
    \/ \E ns \in 1..MaxTargets, ok \in BOOLEAN : MigrateDone(ns, ok)
    \/ MigFinish

(***************************************************************************)
(* Migration of one VM: migrate_vm_sequential and, inside it,              *)
(* wait_for_migration_complete.  The cluster has two nodes; a VMIM in      *)
(* phase Running may move the VMI to the other node or fail, at any time.  *)
(* Time is in seconds and passes in time.sleep only.                       *)
(***************************************************************************)
MaxMigTimeout == 3
MaxPollInterval == 2
MaxVmimRetries == 2
MaxMigRetries == 2
MaxMigDur == 2

Nodes == {1, 2}
OtherNode(n) == 3 - n

\* no VMIM object / a phase or timestamp that is absent
NoPhase == ""
NoVmim == [phase |-> NoPhase, start_ts |-> None, end_ts |-> None]

\* wait_for_migration_complete / migrate_vm_sequential has not returned
NoWaitRet == [success |-> FALSE, observed |-> None, target |-> None, vmim_duration |-> None]
NoMoveRet == [success |-> FALSE, observed |-> None, source |-> None, target |-> None,
              vmim_duration |-> None]

InitMove ==
    /\ mArgs \in [migration_timeout : 1..MaxMigTimeout, poll_interval : 1..MaxPollInterval,
                  max_vmim_retries : 1..MaxVmimRetries,
                  max_migration_retries : 0..MaxMigRetries]
    /\ mPc = "start"
    /\ mSource = None
    /\ mMigAttempt = 0
    /\ mVmimAttempt = 0
    /\ mVmimSleeps = <<>>
    /\ mOrig = None
    /\ mElapsed = 0
    /\ mSeenTs = <<None, None>>
    /\ mWaitRet = NoWaitRet
    /\ mRet = NoMoveRet
    /\ mLog = <<>>
    /\ eNode \in Nodes
    /\ eVmim = NoVmim
    /\ eNodeAtTrigger = None

\* get_vm_node: the node of the VMI, or None when the query fails
GetVmNode(answered) == IF answered THEN eNode ELSE None

\* get_vmim_timestamps: (startTimestamp, endTimestamp, phase), or None three
\* times when kubectl fails or there is no such object
GetVmimTimestamps(answered) ==
    IF answered /\ eVmim.phase # NoPhase
    THEN <<eVmim.start_ts, eVmim.end_ts, eVmim.phase>>
    ELSE <<None, None, NoPhase>>

\* get_migration_status: run_kubectl_command(cmd, logger) is called with a
\* string, `['kubectl'] + args` raises TypeError, the except returns None
GetMigrationStatus == NoPhase

\* calculate_vmim_duration
CalculateVmimDuration(start_ts, end_ts) == end_ts - start_ts

\* vmim_duration = None; if start_ts and end_ts: vmim_duration = calculate_vmim_duration(...)
VmimDuration(start_ts, end_ts, poll_interval) ==
    IF start_ts # None /\ end_ts # None THEN CalculateVmimDuration(start_ts, end_ts)
    ELSE None

\* migrate_vm_sequential returns
MoveReturn(success, observed, source, target, dur) ==
    /\ mRet' = [success |-> success, observed |-> observed, source |-> source,
                target |-> target, vmim_duration |-> dur]
    /\ mPc' = "done"

\* migrate_vm_sequential: source_node = get_vm_node(...), then the first pass of
\* `for migration_attempt in range(1, max_migration_retries + 1)` is entered
\* retry_delay: int = 2
RetryDelay == 2

MayRetryVmimInclusive(attempt, maxRetries) == attempt <= maxRetries

\* if attempt < max_vmim_retries  (and the bound of range(1, max_vmim_retries + 1))
MayRetryVmim(attempt, maxRetries) == attempt < maxRetries

MoveBegin(answered) ==
    /\ mPc = "start"
    /\ mSource' = GetVmNode(answered)
    /\ mLog' = Append(mLog, "source")
    /\ IF mSource' = None
       THEN /\ MoveReturn(FALSE, 0, None, None, None)
            /\ UNCHANGED <<mMigAttempt, mVmimAttempt>>
       ELSE IF mArgs.max_migration_retries < 1
       THEN /\ MoveReturn(FALSE, 0, mSource', None, None)
            /\ UNCHANGED <<mMigAttempt, mVmimAttempt>>
       ELSE /\ mPc' = "trigger"
            /\ mMigAttempt' = 1
            /\ mVmimAttempt' = 1
            /\ UNCHANGED mRet
    /\ UNCHANGED <<mArgs, mOrig, mElapsed, mSeenTs, mWaitRet, eNode, eVmim, eNodeAtTrigger>>
    /\ UNCHANGED mVmimSleeps
    /\ MoveFrame

\* one pass of `for attempt in range(1, max_vmim_retries + 1)`: migrate_vm
\* deletes any VMIM of that name and creates a new one (created = it returned True)
TriggerMigration(created) ==
    /\ mPc = "trigger"
    /\ IF created
       THEN /\ eVmim' = [phase |-> "Running", start_ts |-> None, end_ts |-> None]
            /\ eNodeAtTrigger' = eNode
            /\ mLog' = Append(mLog, "trigger")
            /\ mPc' = "wait_begin"
            /\ UNCHANGED <<mVmimAttempt, mVmimSleeps, mRet>>
       ELSE /\ eVmim' = NoVmim
            /\ mLog' = Append(mLog, "trigger_failed")
            /\ UNCHANGED eNodeAtTrigger
            /\ IF MayRetryVmim(mVmimAttempt, mArgs.max_vmim_retries)
               THEN /\ mVmimSleeps' = Append(mVmimSleeps,
                                            [mig |-> mMigAttempt, after |-> mVmimAttempt,
                                             delay |-> RetryDelay])
                    /\ mVmimAttempt' = mVmimAttempt + 1
                    /\ UNCHANGED <<mPc, mRet>>
               ELSE /\ MoveReturn(FALSE, 0, mSource, None, None)
                    /\ UNCHANGED <<mVmimAttempt, mVmimSleeps>>
    /\ UNCHANGED <<mArgs, mSource, mMigAttempt, mOrig, mElapsed, mSeenTs, mWaitRet, eNode>>
    /\ MoveFrame

\* wait_for_migration_complete: start_time = time.time();
\* original_node = get_vm_node(...)
WaitBegin(answered) ==
    /\ mPc = "wait_begin"
    /\ mOrig' = GetVmNode(answered)
    /\ mElapsed' = 0
    /\ mSeenTs' = <<None, None>>
    /\ mWaitRet' = NoWaitRet
    /\ mLog' = Append(mLog, "original")
    /\ mPc' = "wait_loop"
    /\ UNCHANGED <<mArgs, mSource, mMigAttempt, mVmimAttempt, mRet, eNode, eVmim,
                   eNodeAtTrigger>>
    /\ UNCHANGED mVmimSleeps
    /\ MoveFrame

\* if current_node and current_node != original_node
HasMoved(current, original) == current # None /\ current # original

\* one pass of `while time.time() - start_time < timeout`
WaitPoll(nodeAnswered, vmimAnswered) ==
    /\ mPc = "wait_loop"
    /\ mElapsed < mArgs.migration_timeout
    /\ LET current == GetVmNode(nodeAnswered)
           ts == GetVmimTimestamps(vmimAnswered)
       IN IF HasMoved(current, mOrig)
          THEN /\ mSeenTs' = <<ts[1], ts[2]>>
               /\ mWaitRet' = [success |-> TRUE, observed |-> mElapsed, target |-> current,
                               vmim_duration |->
                                   VmimDuration(ts[1], ts[2], mArgs.poll_interval)]
               /\ mLog' = Append(mLog, "wait_ok")
               /\ mPc' = "after_wait"
               /\ UNCHANGED mElapsed
          ELSE IF Lower(ts[3]) = "failed" \/ GetMigrationStatus = "Failed"
          THEN /\ mWaitRet' = [success |-> FALSE, observed |-> mElapsed, target |-> None,
                               vmim_duration |-> None]
               /\ mLog' = Append(mLog, "wait_failed")
               /\ mPc' = "after_wait"
               /\ UNCHANGED <<mElapsed, mSeenTs>>
          ELSE /\ mElapsed' = mElapsed + mArgs.poll_interval
               /\ UNCHANGED <<mWaitRet, mLog, mPc, mSeenTs>>
    /\ UNCHANGED <<mArgs, mSource, mMigAttempt, mVmimAttempt, mOrig, mRet, eNode, eVmim,
                   eNodeAtTrigger>>
    /\ UNCHANGED mVmimSleeps
    /\ MoveFrame

\* the loop condition fails: return False, timeout, None, None
WaitMigrationTimeout ==
    /\ mPc = "wait_loop"
    /\ ~(mElapsed < mArgs.migration_timeout)
    /\ mWaitRet' = [success |-> FALSE, observed |-> mArgs.migration_timeout,
                    target |-> None, vmim_duration |-> None]
    /\ mLog' = Append(mLog, "wait_timeout")
    /\ mPc' = "after_wait"
    /\ UNCHANGED <<mArgs, mSource, mMigAttempt, mVmimAttempt, mOrig, mElapsed, mSeenTs,
                   mRet, eNode, eVmim, eNodeAtTrigger>>
    /\ UNCHANGED mVmimSleeps
    /\ MoveFrame

MayRetryMigrationInclusive(attempt, maxRetries) == attempt <= maxRetries

NoRetryAfterTimeout(attempt, maxRetries) ==
    attempt < maxRetries /\ mLog[Len(mLog)] # "wait_timeout"

\* if migration_attempt < max_migration_retries
MayRetryMigration(attempt, maxRetries) == attempt < maxRetries

\* migrate_vm_sequential: after wait_for_migration_complete returned
AfterWait ==
    /\ mPc = "after_wait"
    /\ IF mWaitRet.success
       THEN MoveReturn(TRUE, mWaitRet.observed, mSource, mWaitRet.target,
                       mWaitRet.vmim_duration)
       ELSE IF MayRetryMigration(mMigAttempt, mArgs.max_migration_retries)
       THEN mPc' = "delete" /\ UNCHANGED mRet
       ELSE MoveReturn(FALSE, mWaitRet.observed, mSource, None, None)
    /\ UNCHANGED <<mArgs, mSource, mMigAttempt, mVmimAttempt, mOrig, mElapsed, mSeenTs,
                   mWaitRet, mLog, eNode, eVmim, eNodeAtTrigger>>
    /\ UNCHANGED mVmimSleeps
    /\ MoveFrame

\* delete_vmim(vmim_name, ns, logger); time.sleep(retry_delay)
DeleteFailedVmim(deleted) ==
    /\ mPc = "delete"
    /\ eVmim' = IF deleted THEN NoVmim ELSE eVmim
    /\ mLog' = Append(mLog, "delete")
    /\ mPc' = "requery"
    /\ UNCHANGED <<mArgs, mSource, mMigAttempt, mVmimAttempt, mOrig, mElapsed, mSeenTs,
                   mWaitRet, mRet, eNode, eNodeAtTrigger>>
    /\ UNCHANGED mVmimSleeps
    /\ MoveFrame

\* new_source = get_vm_node(...); source_node is updated when it is known and
\* differs; then the next pass of the migration_attempt loop
RequerySource(answered) ==
    /\ mPc = "requery"
    /\ LET new_source == GetVmNode(answered)
       IN mSource' = IF new_source # None /\ new_source # mSource
                     THEN new_source ELSE mSource
    /\ mLog' = Append(mLog, "requery")
    /\ mMigAttempt' = mMigAttempt + 1
    /\ mVmimAttempt' = 1
    /\ mPc' = "trigger"
    /\ UNCHANGED <<mArgs, mOrig, mElapsed, mSeenTs, mWaitRet, mRet, eNode, eVmim,
                   eNodeAtTrigger>>
    /\ UNCHANGED mVmimSleeps
    /\ MoveFrame

\* cluster: the migration completes; the VMI is on the other node and the VMIM
\* carries an end timestamp and, unless that phase was skipped, a start timestamp
ClusterMigrates(hasStart, dur) ==
    /\ mPc \notin {"idle", "done"}
    /\ eVmim.phase = "Running"
    /\ eNode' = OtherNode(eNode)
    /\ eVmim' = [phase |-> "Succeeded",
                 start_ts |-> IF hasStart THEN 1 ELSE None,
                 end_ts |-> 1 + dur]
    /\ UNCHANGED <<mArgs, mPc, mSource, mMigAttempt, mVmimAttempt, mOrig, mElapsed,
                   mSeenTs, mWaitRet, mRet, mLog, eNodeAtTrigger>>
    /\ UNCHANGED mVmimSleeps
    /\ MoveFrame

\* cluster: the migration fails; the VMI stays where it is
ClusterFailsMigration ==
    /\ mPc \notin {"idle", "done"}
    /\ eVmim.phase = "Running"
    /\ eVmim' = [eVmim EXCEPT !.phase = "Failed"]
    /\ UNCHANGED <<mArgs, mPc, mSource, mMigAttempt, mVmimAttempt, mOrig, mElapsed,
                   mSeenTs, mWaitRet, mRet, mLog, eNode, eNodeAtTrigger>>
    /\ UNCHANGED mVmimSleeps
    /\ MoveFrame

NextMove ==
    \/ \E a \in BOOLEAN : MoveBegin(a)
    \/ \E ok \in BOOLEAN : TriggerMigration(ok)
    \/ \E a \in BOOLEAN : WaitBegin(a)
    \/ \E a \in BOOLEAN, b \in BOOLEAN : WaitPoll(a, b)
    \/ WaitMigrationTimeout
    \/ AfterWait
    \/ \E ok \in BOOLEAN : DeleteFailedVmim(ok)
    \/ \E a \in BOOLEAN : RequerySource(a)
    \/ \E s \in BOOLEAN, d \in 1..MaxMigDur : ClusterMigrates(s, d)
    \/ ClusterFailsMigration

(***************************************************************************)
(* Failure-recovery driver: the monitoring phase of main.  An outcome      *)
(* tuple is represented by its namespace and whether the VMI recovered.    *)
(***************************************************************************)
InitRec ==
    /\ fArgs \in [start : {1}, end : 1..MaxTargets, concurrency : 1..MaxConcurrency]
    /\ fPc = "monitor"
    /\ fQueue = Range(fArgs.start, fArgs.end)
    /\ fRunning = {}
    /\ fResults = <<>>

\* ThreadPoolExecutor(max_workers=args.concurrency)
RecoveryMaxWorkers(args) == args.concurrency

\* a free worker of the pool takes the next submitted monitor_recovery call
RecoveryMonitorStart ==
    /\ fPc = "monitor"
    /\ fQueue # <<>>
    /\ Cardinality(fRunning) < RecoveryMaxWorkers(fArgs)
    /\ fRunning' = fRunning \cup {Head(fQueue)}
    /\ fQueue' = Tail(fQueue)
    /\ UNCHANGED <<fArgs, fPc, fResults>>
    /\ RecFrame

\* a monitor_recovery call ends and its future is consumed:
\* results.append(result), or results.append((ns, '', None, '', None))
RecoveryMonitorDone(ns, recovered) ==
    /\ fPc = "monitor"
    /\ ns \in fRunning
    /\ fRunning' = fRunning \ {ns}
    /\ fResults' = Append(fResults, [ns |-> ns, success |-> recovered])
    /\ fPc' = IF fRunning' = {} /\ fQueue = <<>> THEN "summary" ELSE "monitor"
    /\ UNCHANGED <<fArgs, fQueue>>
    /\ RecFrame

NextRec ==
    \/ RecoveryMonitorStart
    \/ \E ns \in 1..MaxTargets, ok \in BOOLEAN : RecoveryMonitorDone(ns, ok)

(***************************************************************************)
(* Result statistics of the VM-creation results: save_results and          *)
(* print_summary_table.  Durations are whole seconds; an average is kept   *)
(* in hundredths of a second, as round(x, 2) and the :.2f format give it.  *)
(***************************************************************************)
MaxResults == 2
MaxDuration == 2

Metrics == {"running_time_sec", "ping_time_sec", "clone_duration_sec"}

\* the tuples monitor_vm returns: success comes with a running and a ping time;
\* a failure is (ns, None, None, None, False) after an exception, else it has
\* no ping time, a running time and possibly a clone duration
Outcomes ==
    {o \in [run : {None} \cup 1..MaxDuration, ping : {None} \cup 1..MaxDuration,
            clone : {None} \cup 1..MaxDuration, ok : BOOLEAN] :
        /\ o.ok => (o.run # None /\ o.ping # None)
        /\ ~o.ok => (o.ping = None /\ (o.run = None => o.clone = None))}

RECURSIVE SeqsUpTo(_, _)
\* the sequences over S of length at most n
SeqsUpTo(S, n) ==
    IF n = 0 THEN {<<>>}
    ELSE LET shorter == SeqsUpTo(S, n - 1)
         IN shorter \cup {Append(q, x) : q \in shorter, x \in S}

\* nothing computed / a statistic that is absent
NoStats == [count |-> None, avg |-> None, max |-> None, min |-> None]
NoSummary == [m \in Metrics |-> NoStats]

InitStat ==
    /\ sArgs \in [skip_clone : BOOLEAN]
    /\ sResults \in SeqsUpTo(Outcomes, MaxResults)
    /\ sSaved = [written |-> FALSE, raised |-> FALSE, metrics |-> NoSummary]
    /\ sPrinted = [printed |-> FALSE, metrics |-> NoSummary]

\* the field of an outcome tuple a metric is read from
Field(o, metric) ==
    IF metric = "running_time_sec" THEN o.run
    ELSE IF metric = "ping_time_sec" THEN o.ping
    ELSE o.clone

RECURSIVE SumSeq(_)
SumSeq(q) == IF q = <<>> THEN 0 ELSE Head(q) + SumSeq(Tail(q))

MaxSeq(q) == CHOOSE x \in SeqToSet(q) : \A y \in SeqToSet(q) : y <= x
MinSeq(q) == CHOOSE x \in SeqToSet(q) : \A y \in SeqToSet(q) : x <= y

\* round(sum(values) / len(values), 2), in hundredths
Avg2(values) == (SumSeq(values) * 200 + Len(values)) \div (2 * Len(values))

\* save_results.calc_stats
CalcStats(values) ==
    [count |-> Len(values),
     avg |-> IF values # <<>> THEN Avg2(values) ELSE None,
     max |-> IF values # <<>> THEN MaxSeq(values) ELSE None,
     min |-> IF values # <<>> THEN MinSeq(values) ELSE None]

RECURSIVE PresentValues(_, _)
\* save_results: [r[k] for r in results if r[k] is not None]
PresentValues(results, metric) ==
    IF results = <<>> THEN <<>>
    ELSE (IF Field(Head(results), metric) # None
          THEN <<Field(Head(results), metric)>> ELSE <<>>)
         \o PresentValues(Tail(results), metric)

RECURSIVE SuccessfulValues(_, _)
\* print_summary_table: `if ok: ... if t is not None: times.append(t)`
SuccessfulValues(results, metric) ==
    IF results = <<>> THEN <<>>
    ELSE (IF Head(results).ok /\ Field(Head(results), metric) # None
          THEN <<Field(Head(results), metric)>> ELSE <<>>)
         \o SuccessfulValues(Tail(results), metric)

\* save_results: the detailed files (csv.DictWriter(fieldnames=data[0].keys())
\* raises IndexError on an empty list), then the summary with its metrics
SaveResults ==
    /\ ~sSaved.written /\ ~sSaved.raised
    /\ sSaved' =
          IF sResults = <<>>
          THEN [sSaved EXCEPT !.raised = TRUE]
          ELSE [written |-> TRUE, raised |-> FALSE,
                metrics |-> [m \in Metrics |->
                    IF m = "clone_duration_sec" /\ sArgs.skip_clone THEN NoStats
                    ELSE CalcStats(PresentValues(sResults, m))]]
    /\ UNCHANGED <<sArgs, sResults, sPrinted>>
    /\ StatFrame

\* print_summary_table: the Avg/Max/Min lines of a metric are printed when its
\* list is not empty (and, for the clone metric, skip_clone is not set)
PrintSummaryTable ==
    /\ ~sPrinted.printed
    /\ sPrinted' =
          [printed |-> TRUE,
           metrics |-> [m \in Metrics |->
               LET values == SuccessfulValues(sResults, m)
               IN IF values = <<>> \/ (m = "clone_duration_sec" /\ sArgs.skip_clone)
                  THEN NoStats
                  ELSE [CalcStats(values) EXCEPT !.count = None]]]
    /\ UNCHANGED <<sArgs, sResults, sSaved>>
    /\ StatFrame

NextStat ==
    \/ SaveResults
    \/ PrintSummaryTable

(***************************************************************************)
(* Datasource-clone driver: monitor_vm for one target, with                *)
(* track_clone_progress, wait_for_vm_running, wait_for_vmi_ip and          *)
(* wait_for_ping.  Times are milliseconds since start_ts.                  *)
(***************************************************************************)
MaxTrackTimeout == 3
MaxPingTimeout == 2

\* how long one kubectl call takes
TrackCallDurs == {0, 500}
\* the time between two consecutive datetime.now() reads of one thread
ClockGaps == {0, 3, 7}

\* status.phase of the DataVolume as the API gives it
DvPhases == {"", "Pending", "CloneScheduled", "CSICloneInProgress", "Succeeded", "Failed"}
\* subprocess.run: a nonzero return code or empty output, an exception (also
\* from json.loads), or a phase
GetDvResults == {"<unavailable>", "<exception>"} \cup DvPhases

\* track_clone_progress has not returned / monitor_vm has not returned
NoTrackRet == <<None, None, -2>>
NoOutcome == [run |-> FALSE, ping |-> FALSE, clone |-> None, ok |-> FALSE, returned |-> FALSE]

InitMonitor ==
    /\ tArgs \in [poll_interval : {1000 * k : k \in 1..MaxPollInterval},
                  ping_timeout : {1000 * k : k \in 1..MaxPingTimeout},
                  timeout : {1000 * k : k \in 2..MaxTrackTimeout}]
    /\ tPc = "track"
    /\ tNow = 0
    /\ tElapsed = 0
    /\ tCloneStart = None
    /\ tCloneEnd = None
    /\ tInferred = FALSE
    /\ tTrackRet = NoTrackRet
    /\ tFirstSeen = <<"", None>>
    /\ tDvFailed = FALSE
    /\ tPingElapsed = 0
    /\ tOutcome = NoOutcome

\* round(x, 2) of a duration given in milliseconds (ties to the even hundredth)
Round2(ms) ==
    LET q == ms \div 10
        r == ms % 10
    IN IF r < 5 THEN 10 * q
       ELSE IF r > 5 THEN 10 * (q + 1)
       ELSE IF q % 2 = 0 THEN 10 * q ELSE 10 * (q + 1)

\* clone_end = datetime.now(), read after clone_start was set and logged
CloneEndRead(now, gap) == now + gap

\* track_clone_progress: the if/elif chain on the lower-cased phase;
\* next is what follows it: the sleep, the break or `return None, None, None`
TrackBranch(phase, cloneStart, inferred, now, gap, poll) ==
    IF phase = "clonescheduled" /\ cloneStart = None
    THEN [start |-> now, end |-> None, inferred |-> inferred, next |-> "sleep"]
    ELSE IF phase = "csicloneinprogress" /\ cloneStart = None
    THEN [start |-> now - poll, end |-> None, inferred |-> TRUE, next |-> "sleep"]
    ELSE IF phase = "succeeded"
    THEN [start |-> IF cloneStart = None THEN now - poll ELSE cloneStart,
          end |-> CloneEndRead(now, gap),
          inferred |-> (cloneStart = None) \/ inferred,
          next |-> "break"]
    ELSE IF phase = "failed"
    THEN [start |-> cloneStart, end |-> None, inferred |-> inferred, next |-> "return_none"]
    ELSE [start |-> cloneStart, end |-> None, inferred |-> inferred, next |-> "sleep"]

\* track_clone_progress after the loop: `if clone_start and clone_end`
TrackReturn(cloneStart, cloneEnd) ==
    IF cloneStart # None /\ cloneEnd # None
    THEN <<cloneStart, cloneEnd, Round2(cloneEnd - cloneStart)>>
    ELSE <<None, None, None>>

\* the phases that set clone_start
ClonePhases == {"clonescheduled", "csicloneinprogress", "succeeded"}

\* track_clone_progress: one pass of `while elapsed < timeout`
TrackSample(res, d, gap) ==
    /\ tPc = "track"
    /\ tElapsed < tArgs.timeout
    /\ LET now == tNow + d
           poll == tArgs.poll_interval
           b == IF res = "<unavailable>"
                THEN [start |-> tCloneStart, end |-> None, inferred |-> tInferred,
                      next |-> "sleep"]
                ELSE IF res = "<exception>"
                THEN [start |-> tCloneStart, end |-> None, inferred |-> tInferred,
                      next |-> "return_none"]
                ELSE TrackBranch(Lower(res), tCloneStart, tInferred, now, gap, poll)
       IN /\ tCloneStart' = b.start
          /\ tCloneEnd' = b.end
          /\ tInferred' = b.inferred
          /\ tFirstSeen' = IF tFirstSeen[1] = "" /\ res \in DvPhases /\ Lower(res) \in ClonePhases
                           THEN <<Lower(res), now>> ELSE tFirstSeen
          /\ tDvFailed' = (tDvFailed \/ (res \in DvPhases /\ Lower(res) = "failed"))
          /\ IF b.next = "sleep"
             THEN /\ tNow' = now + poll
                  /\ tElapsed' = now + poll
                  /\ UNCHANGED <<tPc, tTrackRet>>
             ELSE IF b.next = "break"
             THEN /\ tNow' = b.end
                  /\ tTrackRet' = TrackReturn(b.start, b.end)
                  /\ tPc' = "running"
                  /\ UNCHANGED tElapsed
             ELSE /\ tNow' = now
                  /\ tTrackRet' = <<None, None, None>>
                  /\ tPc' = "running"
                  /\ UNCHANGED tElapsed
    /\ UNCHANGED <<tArgs, tPingElapsed, tOutcome>>
    /\ MonitorFrame

\* track_clone_progress: the loop test fails; clone_end is still None
TrackTimedOut ==
    /\ tPc = "track"
    /\ ~(tElapsed < tArgs.timeout)
    /\ tTrackRet' = TrackReturn(tCloneStart, tCloneEnd)
    /\ tPc' = "running"
    /\ UNCHANGED <<tArgs, tNow, tElapsed, tCloneStart, tCloneEnd, tInferred, tFirstSeen,
                   tDvFailed, tPingElapsed, tOutcome>>
    /\ MonitorFrame

\* wait_for_vm_running: status = get_vm_status(...); return when 'Running'
WaitRunningSample(status) ==
    /\ tPc = "running"
    /\ tPc' = IF status = "Running" THEN "ip" ELSE "running_sleep"
    /\ UNCHANGED <<tArgs, tNow, tElapsed, tCloneStart, tCloneEnd, tInferred, tTrackRet,
                   tFirstSeen, tDvFailed, tPingElapsed, tOutcome>>
    /\ MonitorFrame

\* wait_for_vm_running: time.sleep(poll_interval), then `while True` again
WaitRunningSleep ==
    /\ tPc = "running_sleep"
    /\ tPc' = "running"
    /\ UNCHANGED <<tArgs, tNow, tElapsed, tCloneStart, tCloneEnd, tInferred, tTrackRet,
                   tFirstSeen, tDvFailed, tPingElapsed, tOutcome>>
    /\ MonitorFrame

\* wait_for_vmi_ip: ip = get_vmi_ip(...); return when it is not empty
WaitIpSample(hasIp) ==
    /\ tPc = "ip"
    /\ tPc' = IF hasIp THEN "ping" ELSE "ip_sleep"
    /\ tPingElapsed' = 0
    /\ UNCHANGED <<tArgs, tNow, tElapsed, tCloneStart, tCloneEnd, tInferred, tTrackRet,
                   tFirstSeen, tDvFailed, tOutcome>>
    /\ MonitorFrame

\* wait_for_vmi_ip: time.sleep(poll_interval), then `while True` again
WaitIpSleep ==
    /\ tPc = "ip_sleep"
    /\ tPc' = "ip"
    /\ UNCHANGED <<tArgs, tNow, tElapsed, tCloneStart, tCloneEnd, tInferred, tTrackRet,
                   tFirstSeen, tDvFailed, tPingElapsed, tOutcome>>
    /\ MonitorFrame

\* wait_for_ping: one pass of its loop, and monitor_vm's return after it
PingSample(answered, d) ==
    /\ tPc = "ping"
    /\ IF tPingElapsed > tArgs.ping_timeout
       THEN /\ tOutcome' = [run |-> TRUE, ping |-> FALSE, clone |-> tTrackRet[3],
                            ok |-> FALSE, returned |-> TRUE]
            /\ tPc' = "done"
            /\ UNCHANGED tPingElapsed
       ELSE IF answered
       THEN /\ tOutcome' = [run |-> TRUE, ping |-> TRUE, clone |-> tTrackRet[3],
                            ok |-> TRUE, returned |-> TRUE]
            /\ tPc' = "done"
            /\ UNCHANGED tPingElapsed
       ELSE /\ tPingElapsed' = tPingElapsed + d + tArgs.poll_interval
            /\ UNCHANGED <<tPc, tOutcome>>
    /\ UNCHANGED <<tArgs, tNow, tElapsed, tCloneStart, tCloneEnd, tInferred, tTrackRet,
                   tFirstSeen, tDvFailed>>
    /\ MonitorFrame

NextMonitor ==
    \/ \E res \in GetDvResults, d \in TrackCallDurs, gap \in ClockGaps : TrackSample(res, d, gap)
    \/ TrackTimedOut
    \/ \E status \in VmStatuses : WaitRunningSample(status)
    \/ WaitRunningSleep
    \/ \E hasIp \in BOOLEAN : WaitIpSample(hasIp)
    \/ WaitIpSleep
    \/ \E answered \in BOOLEAN, d \in TrackCallDurs : PingSample(answered, d)

(***************************************************************************)
(* Migration driver, parallel scenario: the order in which the namespaces  *)
(* are submitted to the pool (--interleaved-scheduling).  A namespace is   *)
(* named by its 1-based position in `namespaces`.                          *)
(***************************************************************************)
MaxNamespaces == 8
MaxNodes == 4

InitOrder ==
    /\ oArgs \in [namespaces : 1..MaxNamespaces, interleaved_scheduling : BOOLEAN]
    /\ oPc = "detect"
    /\ oNumNodes = 0
    /\ oGroupSize = 0
    /\ oOffset = 0
    /\ oI = 0
    /\ oOrder = <<>>

\* the stride taken to be the number of nodes
StrideIsNumNodes(total, numNodes) == numNodes

\* the quotient alone, without `or 1`
QuotientOnly(total, numNodes) == total \div numNodes

\* group_size = total_namespaces // num_nodes or 1
GroupSize(total, numNodes) ==
    IF total \div numNodes = 0 THEN 1 ELSE total \div numNodes

\* num_nodes = len(available_nodes) if available_nodes else 1, then either
\* reordered_namespaces = namespaces or the start of the two for loops
DetectNodes(available) ==
    /\ oPc = "detect"
    /\ oNumNodes' = IF available # 0 THEN available ELSE 1
    /\ IF oArgs.interleaved_scheduling
       THEN /\ oGroupSize' = GroupSize(oArgs.namespaces, oNumNodes')
            /\ oOrder' = <<>>
            /\ oPc' = "reorder"
       ELSE /\ oGroupSize' = 0
            /\ oOrder' = Range(1, oArgs.namespaces)
            /\ oPc' = "submit"
    /\ oOffset' = 0
    /\ oI' = 0
    /\ UNCHANGED oArgs
    /\ OrderFrame

\* one pass of `for i in range(offset, total_namespaces, group_size)` inside
\* `for offset in range(group_size)`: reordered_namespaces.append(namespaces[i])
ReorderAppend ==
    /\ oPc = "reorder"
    /\ oOrder' = Append(oOrder, oI + 1)
    /\ IF oI + oGroupSize < oArgs.namespaces
       THEN /\ oI' = oI + oGroupSize
            /\ UNCHANGED <<oOffset, oPc>>
       ELSE IF oOffset + 1 < oGroupSize
       THEN /\ oOffset' = oOffset + 1
            /\ oI' = oOffset + 1
            /\ UNCHANGED oPc
       ELSE /\ oPc' = "submit"
            /\ UNCHANGED <<oOffset, oI>>
    /\ UNCHANGED <<oArgs, oNumNodes, oGroupSize>>
    /\ OrderFrame

NextOrder ==
    \/ \E available \in 0..MaxNodes : DetectNodes(available)
    \/ ReorderAppend

(***************************************************************************)
(* utils.common: cleanup_test_namespaces, which runs                       *)
(* cleanup_namespace_resources for every namespace on a pool and adds the  *)
(* returned statistics to overall_stats.  A namespace is named by its      *)
(* index; every resource kind holds at most one object per namespace.      *)
(***************************************************************************)
MaxCleanNs == 2
MaxBatch == 2

\* the resource kinds cleanup_namespace_resources deletes, in its order
Kinds == {"vmim", "vm", "dv", "pvc"}
\* what the listings of one namespace show: nothing, a VM with its DataVolume
\* and PVC, or those and a migration object
ListedCases == {{}, {"vm", "dv", "pvc"}, Kinds}

ZeroStats == [vms_deleted |-> 0, dvs_deleted |-> 0, pvcs_deleted |-> 0,
              vmims_deleted |-> 0, errors |-> 0]
ZeroOverall == [namespaces_processed |-> 0, namespaces_deleted |-> 0,
                total_vms_deleted |-> 0, total_dvs_deleted |-> 0,
                total_pvcs_deleted |-> 0, total_vmims_deleted |-> 0, total_errors |-> 0]

InitCleanup ==
    /\ kArgs \in [namespaces : 1..MaxCleanNs, batch_size : 1..MaxBatch, vm_name : BOOLEAN,
                  delete_namespaces : BOOLEAN, dry_run : BOOLEAN]
    /\ kPc = "resources"
    /\ kQueue = Range(1, kArgs.namespaces)
    /\ kRunning = {}
    /\ kCompleted = {}
    /\ kConsumed = {}
    /\ kStats = [ns \in 1..kArgs.namespaces |-> ZeroStats]
    /\ kOverall = ZeroOverall
    /\ kSeen = {}
    /\ kDeletes = {}

\* a delete issued whatever dry_run says
DeletesAnyway(dry_run) == TRUE

\* `if dry_run: logger.info("[DRY RUN] Would delete ...") else: delete_...(...)`
IssuesDelete(dry_run) == ~dry_run

\* vms = [vm_name] if vm_name else the listed VMs; the other kinds are listed
Targets(vm_name, listed) == IF vm_name THEN listed \cup {"vm"} ELSE listed

\* one delete loop: 1 when the kind has an object and its delete returned True
DeletedCount(kind, targets, dry_run, failed) ==
    IF kind \in targets /\ IssuesDelete(dry_run) /\ kind \notin failed THEN 1 ELSE 0

\* cleanup_namespace_resources: the stats dictionary it returns
NamespaceStats(exists, vm_name, dry_run, listed, failed) ==
    IF ~exists THEN ZeroStats
    ELSE LET targets == Targets(vm_name, listed)
         IN [vms_deleted |-> DeletedCount("vm", targets, dry_run, failed),
             dvs_deleted |-> DeletedCount("dv", targets, dry_run, failed),
             pvcs_deleted |-> DeletedCount("pvc", targets, dry_run, failed),
             vmims_deleted |-> DeletedCount("vmim", targets, dry_run, failed),
             errors |-> IF IssuesDelete(dry_run)
                        THEN Cardinality(targets \cap failed) ELSE 0]

\* the worker adding its statistics to overall_stats itself
WorkerAdds(overall, stats) ==
    [overall EXCEPT !.total_vms_deleted = @ + stats.vms_deleted,
                    !.total_dvs_deleted = @ + stats.dvs_deleted,
                    !.total_pvcs_deleted = @ + stats.pvcs_deleted,
                    !.total_vmims_deleted = @ + stats.vmims_deleted,
                    !.total_errors = @ + stats.errors]

\* cleanup_namespace_resources fills its own `stats` and returns it;
\* overall_stats is not in its scope
AfterWorker(overall, stats) == overall

\* the dispatching thread, for one completed future: stats = future.result()
\* and the six `overall_stats[...] += ...`
Accumulate(overall, stats) ==
    [overall EXCEPT !.namespaces_processed = @ + 1,
                    !.total_vms_deleted = @ + stats.vms_deleted,
                    !.total_dvs_deleted = @ + stats.dvs_deleted,
                    !.total_pvcs_deleted = @ + stats.pvcs_deleted,
                    !.total_vmims_deleted = @ + stats.vmims_deleted,
                    !.total_errors = @ + stats.errors]

\* a free worker of ThreadPoolExecutor(max_workers=batch_size) takes the next
\* submitted cleanup_namespace_resources call
CleanupWorkerStart ==
    /\ kPc = "resources"
    /\ kQueue # <<>>
    /\ Cardinality(kRunning) < kArgs.batch_size
    /\ kRunning' = kRunning \cup {Head(kQueue)}
    /\ kQueue' = Tail(kQueue)
    /\ UNCHANGED <<kArgs, kPc, kCompleted, kConsumed, kStats, kOverall, kSeen, kDeletes>>
    /\ CleanupFrame

\* a worker runs cleanup_namespace_resources(ns, vm_name, dry_run) to its return
CleanupNamespaceResources(ns, exists, listed, failed) ==
    /\ kPc = "resources"
    /\ ns \in kRunning
    /\ LET stats == NamespaceStats(exists, kArgs.vm_name, kArgs.dry_run, listed, failed)
           targets == IF exists THEN Targets(kArgs.vm_name, listed) ELSE {}
       IN /\ kStats' = [kStats EXCEPT ![ns] = stats]
          /\ kOverall' = AfterWorker(kOverall, stats)
          /\ kSeen' = kSeen \cup targets
          /\ kDeletes' = kDeletes \cup {kind \in targets : IssuesDelete(kArgs.dry_run)}
    /\ kRunning' = kRunning \ {ns}
    /\ kCompleted' = kCompleted \cup {ns}
    /\ UNCHANGED <<kArgs, kPc, kQueue, kConsumed>>
    /\ CleanupFrame

\* one pass of `for future in as_completed(futures)` in the dispatching thread
ConsumeFuture(ns) ==
    /\ kPc = "resources"
    /\ ns \in kCompleted
    /\ kCompleted' = kCompleted \ {ns}
    /\ kConsumed' = kConsumed \cup {ns}
    /\ kOverall' = Accumulate(kOverall, kStats[ns])
    /\ kPc' = IF kQueue = <<>> /\ kRunning = {} /\ kCompleted' = {}
              THEN "namespaces" ELSE "resources"
    /\ UNCHANGED <<kArgs, kQueue, kRunning, kStats, kSeen, kDeletes>>
    /\ CleanupFrame

\* `if delete_namespaces and not dry_run:` delete_namespaces_parallel and its
\* counts, else nothing but log lines; then `return overall_stats`
DeleteNamespaces(successful) ==
    /\ kPc = "namespaces"
    /\ successful \subseteq 1..kArgs.namespaces
    /\ IF kArgs.delete_namespaces /\ IssuesDelete(kArgs.dry_run)
       THEN /\ kOverall' = [kOverall EXCEPT
                               !.namespaces_deleted = Cardinality(successful),
                               !.total_errors = @ + (kArgs.namespaces - Cardinality(successful))]
            /\ kDeletes' = kDeletes \cup {"namespace"}
       ELSE UNCHANGED <<kOverall, kDeletes>>
    /\ kPc' = "done"
    /\ UNCHANGED <<kArgs, kQueue, kRunning, kCompleted, kConsumed, kStats, kSeen>>
    /\ CleanupFrame

NextCleanup ==
    \/ CleanupWorkerStart
    \/ \E ns \in 1..MaxCleanNs, exists \in BOOLEAN, listed \in ListedCases :
          \E failed \in {f \in SUBSET listed : Cardinality(f) <= 1} :
             CleanupNamespaceResources(ns, exists, listed, failed)
    \/ \E ns \in 1..MaxCleanNs : ConsumeFuture(ns)
    \/ \E successful \in SUBSET (1..MaxCleanNs) : DeleteNamespaces(successful)

(***************************************************************************)
(* utils.common: confirm_cleanup.                                          *)
(***************************************************************************)
PromptThreshold == 10
MaxOverThreshold == 5

\* what the user may type at the prompt
Answers == {"yes", "y", "YES", "Y", "Yes", " yes ", "  Y", "no", "n", "", " ", "yess", "ye s", "ok"}

InitConfirm ==
    /\ qArgs \in [num_namespaces : 0..(PromptThreshold + MaxOverThreshold), auto_yes : BOOLEAN]
    /\ qPc = "start"
    /\ qPrompts = <<>>
    /\ qRet = "none"

RECURSIVE LStrip(_)
\* the text without its leading blanks
LStrip(s) ==
    IF Len(s) > 0 /\ SubSeq(s, 1, 1) = " " THEN LStrip(SubSeq(s, 2, Len(s))) ELSE s

RECURSIVE RStrip(_)
\* the text without its trailing blanks
RStrip(s) ==
    IF Len(s) > 0 /\ SubSeq(s, Len(s), Len(s)) = " "
    THEN RStrip(SubSeq(s, 1, Len(s) - 1)) ELSE s

\* Python: s.strip()
Strip(s) == RStrip(LStrip(s))

\* the answer compared as typed
AsTyped(answer) == answer

\* input(...).strip().lower()
Normalised(answer) == Lower(Strip(answer))

\* response in ['yes', 'y']
Accepts(answer) == Normalised(answer) \in {"yes", "y"}

\* the prompt shown for more than ten namespaces only when auto_yes is not set
NeedsPrompt(num_namespaces, auto_yes) == ~auto_yes /\ num_namespaces > PromptThreshold

\* confirm_cleanup up to its first return or to the input() call
ConfirmStart ==
    /\ qPc = "start"
    /\ IF NeedsPrompt(qArgs.num_namespaces, qArgs.auto_yes)
       THEN /\ qPc' = "input"
            /\ UNCHANGED qRet
       ELSE /\ qPc' = "done"
            /\ qRet' = "True"
    /\ UNCHANGED <<qArgs, qPrompts>>
    /\ ConfirmFrame

\* input() returns what the user typed; `return response in ['yes', 'y']`
ConfirmAnswer(answer) ==
    /\ qPc = "input"
    /\ qPrompts' = Append(qPrompts, answer)
    /\ qRet' = IF Accepts(answer) THEN "True" ELSE "False"
    /\ qPc' = "done"
    /\ UNCHANGED qArgs
    /\ ConfirmFrame

NextConfirm ==
    \/ ConfirmStart
    \/ \E answer \in Answers : ConfirmAnswer(answer)

(***************************************************************************)
(* utils.common: restart_vm, stop_vm, wait_for_vm_stopped, start_vm.       *)
(* Times are in seconds.                                                   *)
(***************************************************************************)
MaxStopTimeout == 3
StopPollSleep == 2

\* how long one `kubectl get vmi` call takes
GetVmiDurs == {0, 1}

InitRestart ==
    /\ xArgs \in [timeout : {StopPollSleep * k : k \in 1..MaxStopTimeout}]
    /\ xPc = "stop"
    /\ xNow = 0
    /\ xStart = 0
    /\ xHalted = FALSE
    /\ xVmi = TRUE
    /\ xCmds = <<>>
    /\ xEndedBy = ""
    /\ xRet = "none"

\* what `kubectl get vmi <name>` can do: find the VMI (exit code 0), report it
\* not found, fail to reach the API server (both a non-zero exit code), or
\* raise out of subprocess.run
GetVmiOutcomes(vmiPresent) ==
    {IF vmiPresent THEN "found" ELSE "notfound", "unreachable", "raised"}

\* the exit code of `kubectl get vmi`
ReturnCode(out) == IF out = "found" THEN 0 ELSE 1

\* if returncode != 0:  (an exception is swallowed by `except Exception: pass`)
TakenAsStopped(out) == out # "raised" /\ ReturnCode(out) # 0

\* while time.time() - start_time < timeout
StillWaiting(now, start, timeout) == now - start < timeout

\* restart_vm returns
RestartReturn(ok) ==
    /\ xRet' = IF ok THEN "true" ELSE "false"
    /\ xPc' = "done"

\* restart_vm: stop_vm, then wait_for_vm_stopped is entered
RestartStop(ok) ==
    /\ xPc = "stop"
    /\ xCmds' = Append(xCmds, "stop")
    /\ IF ok
       THEN /\ xHalted' = TRUE
            /\ xStart' = xNow
            /\ xPc' = "wait"
            /\ UNCHANGED xRet
       ELSE /\ RestartReturn(FALSE)
            /\ UNCHANGED <<xHalted, xStart>>
    /\ UNCHANGED <<xArgs, xNow, xVmi, xEndedBy>>
    /\ RestartFrame

\* wait_for_vm_stopped: one pass of the loop up to the sleep
StopSample(out, d) ==
    /\ xPc = "wait"
    /\ StillWaiting(xNow, xStart, xArgs.timeout)
    /\ out \in GetVmiOutcomes(xVmi)
    /\ xCmds' = Append(xCmds, "get")
    /\ xNow' = xNow + d
    /\ IF TakenAsStopped(out)
       THEN xPc' = "start" /\ xEndedBy' = out
       ELSE xPc' = "sleep" /\ UNCHANGED xEndedBy
    /\ UNCHANGED <<xArgs, xStart, xHalted, xVmi, xRet>>
    /\ RestartFrame

\* wait_for_vm_stopped: time.sleep(2)
StopSleep ==
    /\ xPc = "sleep"
    /\ xNow' = xNow + StopPollSleep
    /\ xPc' = "wait"
    /\ UNCHANGED <<xArgs, xStart, xHalted, xVmi, xCmds, xEndedBy, xRet>>
    /\ RestartFrame

\* wait_for_vm_stopped returns False; restart_vm returns False
StopTimedOut ==
    /\ xPc = "wait"
    /\ ~StillWaiting(xNow, xStart, xArgs.timeout)
    /\ xEndedBy' = "timeout"
    /\ RestartReturn(FALSE)
    /\ UNCHANGED <<xArgs, xNow, xStart, xHalted, xVmi, xCmds>>
    /\ RestartFrame

\* restart_vm: start_vm and the return
RestartStart(ok) ==
    /\ xPc = "start"
    /\ xCmds' = Append(xCmds, "start")
    /\ RestartReturn(ok)
    /\ UNCHANGED <<xArgs, xNow, xStart, xHalted, xVmi, xEndedBy>>
    /\ RestartFrame

\* the cluster, once runStrategy is Halted, shuts the VM down and deletes the VMI
ClusterStopsVm ==
    /\ xPc \in {"wait", "sleep"}
    /\ xHalted /\ xVmi
    /\ xVmi' = FALSE
    /\ UNCHANGED <<xArgs, xPc, xNow, xStart, xHalted, xCmds, xEndedBy, xRet>>
    /\ RestartFrame

NextRestart ==
    \/ \E ok \in BOOLEAN : RestartStop(ok)
    \/ \E out \in {"found", "notfound", "unreachable", "raised"}, d \in GetVmiDurs : StopSample(out, d)
    \/ StopSleep
    \/ StopTimedOut
    \/ \E ok \in BOOLEAN : RestartStart(ok)
    \/ ClusterStopsVm

(***************************************************************************)
(* Specifications.  Each follows one part; the others stay as initialised. *)
(***************************************************************************)
IdleRetry ==
    /\ rFn = "capacity" /\ rMax = 0 /\ rDelay0 = 1 /\ rAttempt = 1 /\ rPc = "idle"
    /\ rOutcomes = <<>> /\ rSleeps = <<>> /\ rResult = "none"

IdlePoll ==
    /\ wTimeout = 0 /\ wSchedTimeout = 0 /\ wNow = 0 /\ wStart = 0
    /\ wSchedStart = None /\ wSamples = <<>> /\ wPc = "idle"
    /\ wRet = <<FALSE, "none">> /\ wRetAt = None

IdleCap ==
    /\ cArgs = [vms |-> 1, max_iterations |-> 0, skip_resize_job |-> FALSE,
                skip_restart_job |-> FALSE, skip_snapshot_job |-> FALSE,
                cleanup |-> FALSE, cleanup_only |-> FALSE]
    /\ cPc = "idle" /\ cIteration = 1 /\ cTotalVms = 0 /\ cCapReached = FALSE
    /\ cEndReason = "unknown" /\ cResults = NoResults /\ cExit = None
    /\ cCreated = <<>> /\ cSuccVms = <<>> /\ cRet = NoRet
    /\ vPhase = 0 /\ vNames = <<>> /\ vIdx = 1 /\ vSucc = <<>> /\ vFailed = <<>>
    /\ vReason = "" /\ vInvoked = <<>> /\ vOutcomes = <<>>
    /\ cInterrupted = FALSE /\ cCapSignal = FALSE /\ cIterFailed = FALSE
    /\ cReturned = <<>> /\ cIntAt = "" /\ cDeletes = <<>>

IdleClone ==
    /\ dArgs = [start |-> 1, end |-> 1, concurrency |-> 1]
    /\ dPc = "idle" /\ dCreating = {} /\ dStartTimes = <<>> /\ dQueue = <<>>
    /\ dRunning = {} /\ dResults = <<>> /\ dExit = None

IdleMig ==
    /\ gArgs = [namespaces |-> 1, parallel |-> FALSE, evacuate |-> FALSE,
                round_robin |-> FALSE, concurrency |-> 1]
    /\ gPc = "idle" /\ gQueue = <<>> /\ gRunning = {} /\ gResults = <<>> /\ gExit = None

IdleRec ==
    /\ fArgs = [start |-> 1, end |-> 1, concurrency |-> 1]
    /\ fPc = "idle" /\ fQueue = <<>> /\ fRunning = {} /\ fResults = <<>>

IdleStat ==
    /\ sArgs = [skip_clone |-> FALSE] /\ sResults = <<>>
    /\ sSaved = [written |-> TRUE, raised |-> FALSE, metrics |-> NoSummary]
    /\ sPrinted = [printed |-> TRUE, metrics |-> NoSummary]

IdleMove ==
    /\ mArgs = [migration_timeout |-> 1, poll_interval |-> 1, max_vmim_retries |-> 1,
                max_migration_retries |-> 1]
    /\ mPc = "idle" /\ mSource = None /\ mMigAttempt = 0 /\ mVmimAttempt = 0
    /\ mVmimSleeps = <<>>
    /\ mOrig = None /\ mElapsed = 0 /\ mSeenTs = <<None, None>>
    /\ mWaitRet = NoWaitRet /\ mRet = NoMoveRet /\ mLog = <<>>
    /\ eNode = 1 /\ eVmim = NoVmim /\ eNodeAtTrigger = None

IdleMonitor ==
    /\ tArgs = [poll_interval |-> 1000, ping_timeout |-> 1000, timeout |-> 1000]
    /\ tPc = "idle" /\ tNow = 0 /\ tElapsed = 0 /\ tCloneStart = None /\ tCloneEnd = None
    /\ tInferred = FALSE /\ tTrackRet = NoTrackRet /\ tFirstSeen = <<"", None>>
    /\ tDvFailed = FALSE /\ tPingElapsed = 0 /\ tOutcome = NoOutcome

IdleOrder ==
    /\ oArgs = [namespaces |-> 1, interleaved_scheduling |-> FALSE]
    /\ oPc = "idle" /\ oNumNodes = 0 /\ oGroupSize = 0 /\ oOffset = 0 /\ oI = 0
    /\ oOrder = <<>>

IdleCleanup ==
    /\ kArgs = [namespaces |-> 1, batch_size |-> 1, vm_name |-> FALSE,
                delete_namespaces |-> FALSE, dry_run |-> FALSE]
    /\ kPc = "idle" /\ kQueue = <<>> /\ kRunning = {} /\ kCompleted = {} /\ kConsumed = {}
    /\ kStats = <<ZeroStats>> /\ kOverall = ZeroOverall /\ kSeen = {} /\ kDeletes = {}

IdleConfirm ==
    /\ qArgs = [num_namespaces |-> 0, auto_yes |-> TRUE]
    /\ qPc = "idle" /\ qPrompts = <<>> /\ qRet = "none"

IdleRestart ==
    /\ xArgs = [timeout |-> 0]
    /\ xPc = "idle" /\ xNow = 0 /\ xStart = 0 /\ xHalted = FALSE /\ xVmi = TRUE
    /\ xCmds = <<>> /\ xEndedBy = "" /\ xRet = "none"

RetryInit == InitRetry /\ IdlePoll /\ IdleCap /\ IdleClone /\ IdleMig /\ IdleMove /\ IdleRec /\ IdleStat /\ IdleMonitor /\ IdleOrder /\ IdleCleanup /\ IdleConfirm /\ IdleRestart
PollInit == IdleRetry /\ InitPoll /\ IdleCap /\ IdleClone /\ IdleMig /\ IdleMove /\ IdleRec /\ IdleStat /\ IdleMonitor /\ IdleOrder /\ IdleCleanup /\ IdleConfirm /\ IdleRestart
CapInit == IdleRetry /\ IdlePoll /\ InitCap /\ IdleClone /\ IdleMig /\ IdleMove /\ IdleRec /\ IdleStat /\ IdleMonitor /\ IdleOrder /\ IdleCleanup /\ IdleConfirm /\ IdleRestart
CloneInit == IdleRetry /\ IdlePoll /\ IdleCap /\ InitClone /\ IdleMig /\ IdleMove /\ IdleRec /\ IdleStat /\ IdleMonitor /\ IdleOrder /\ IdleCleanup /\ IdleConfirm /\ IdleRestart
MigInit == IdleRetry /\ IdlePoll /\ IdleCap /\ IdleClone /\ InitMig /\ IdleMove /\ IdleRec /\ IdleStat /\ IdleMonitor /\ IdleOrder /\ IdleCleanup /\ IdleConfirm /\ IdleRestart
MoveInit == IdleRetry /\ IdlePoll /\ IdleCap /\ IdleClone /\ IdleMig /\ InitMove /\ IdleRec /\ IdleStat /\ IdleMonitor /\ IdleOrder /\ IdleCleanup /\ IdleConfirm /\ IdleRestart

SpecRetry == RetryInit /\ [][NextRetry]_vars
SpecPoll == PollInit /\ [][NextPoll]_vars
SpecCap == CapInit /\ [][NextCap]_vars
SpecClone == CloneInit /\ [][NextClone]_vars
SpecMig == MigInit /\ [][NextMig]_vars
\* one of the three drivers that dispatch work to a pool
DispatchInit ==
    /\ IdleRestart /\ IdleConfirm /\ IdleMonitor /\ IdleOrder /\ IdleCleanup /\ IdleRetry /\ IdlePoll /\ IdleCap /\ IdleMove /\ IdleStat
    /\ \/ InitClone /\ IdleMig /\ IdleRec
       \/ IdleClone /\ InitMig /\ IdleRec
       \/ IdleClone /\ IdleMig /\ InitRec

NextDispatch ==
    \/ \E ns \in 1..MaxTargets, ok \in BOOLEAN : CloneCreateDone(ns, ok)
    \/ CloneMonitorStart
    \/ \E ns \in 1..MaxTargets, ok \in BOOLEAN : CloneMonitorDone(ns, ok)
    \/ CloneExit
    \/ \E ok \in BOOLEAN : MigVerify(ok)
    \/ \E onNode \in SUBSET (1..MaxTargets), ok \in BOOLEAN : MigPrepare(onNode, ok)
    \/ \E ok \in BOOLEAN : MigrateSequential(ok)
    \/ MigrateStart
    \/ \E ns \in 1..MaxTargets, ok \in BOOLEAN : MigrateDone(ns, ok)
    \/ MigFinish
    \/ RecoveryMonitorStart
    \/ \E ns \in 1..MaxTargets, ok \in BOOLEAN : RecoveryMonitorDone(ns, ok)

StatInit == IdleRetry /\ IdlePoll /\ IdleCap /\ IdleClone /\ IdleMig /\ IdleMove /\ IdleRec /\ InitStat /\ IdleMonitor /\ IdleOrder /\ IdleCleanup /\ IdleConfirm /\ IdleRestart

SpecMove == MoveInit /\ [][NextMove]_vars
SpecDispatch == DispatchInit /\ [][NextDispatch]_vars
SpecStat == StatInit /\ [][NextStat]_vars

MonitorInit == IdleRetry /\ IdlePoll /\ IdleCap /\ IdleClone /\ IdleMig /\ IdleMove /\ IdleRec /\ IdleStat /\ InitMonitor /\ IdleOrder /\ IdleCleanup /\ IdleConfirm /\ IdleRestart

OrderInit == IdleRetry /\ IdlePoll /\ IdleCap /\ IdleClone /\ IdleMig /\ IdleMove /\ IdleRec /\ IdleStat /\ IdleMonitor /\ InitOrder /\ IdleCleanup /\ IdleConfirm /\ IdleRestart

CleanupInit == IdleRetry /\ IdlePoll /\ IdleCap /\ IdleClone /\ IdleMig /\ IdleMove /\ IdleRec /\ IdleStat /\ IdleMonitor /\ IdleOrder /\ InitCleanup /\ IdleConfirm /\ IdleRestart

SpecCleanup == CleanupInit /\ [][NextCleanup]_vars
ConfirmInit == IdleRetry /\ IdlePoll /\ IdleCap /\ IdleClone /\ IdleMig /\ IdleMove /\ IdleRec /\ IdleStat /\ IdleMonitor /\ IdleOrder /\ IdleCleanup /\ InitConfirm /\ IdleRestart
RestartInit == IdleRetry /\ IdlePoll /\ IdleCap /\ IdleClone /\ IdleMig /\ IdleMove /\ IdleRec /\ IdleStat /\ IdleMonitor /\ IdleOrder /\ IdleCleanup /\ IdleConfirm /\ InitRestart

SpecRestart == RestartInit /\ [][NextRestart]_vars
SpecConfirm == ConfirmInit /\ [][NextConfirm]_vars
SpecOrder == OrderInit /\ [][NextOrder]_vars
SpecMonitor == MonitorInit /\ [][NextMonitor]_vars
\* the worker thread running monitor_vm is never suspended for ever
SpecMonitorFair == MonitorInit /\ [][NextMonitor]_vars /\ WF_vars(NextMonitor)

(***************************************************************************)
(* Properties                                                              *)
(***************************************************************************)
RetryableFailure(o) == o.kind = "nonzero" /\ IsRetryable(rFn, o.msg)
FatalFailure(o) == o.kind = "nonzero" /\ ~IsRetryable(rFn, o.msg)

AllAttemptsRetryable ==
    \A i \in 1..Len(rOutcomes) : RetryableFailure(rOutcomes[i])

C2_FatalStopsAtOnce ==
    \A k \in 1..Len(rOutcomes) :
        FatalFailure(rOutcomes[k]) =>
            /\ k = Len(rOutcomes)
            /\ rPc = "done" /\ rResult = "failed"
            /\ \A i \in 1..Len(rSleeps) : rSleeps[i].after < k
            /\ (k = 1 => Len(rOutcomes) = 1 /\ rSleeps = <<>>)

C2_Witness ==
    /\ rPc = "done" /\ rMax >= 3 /\ Len(rOutcomes) = 1
    /\ FatalFailure(rOutcomes[1]) /\ rSleeps = <<>> /\ rResult = "failed"

AllSamplesScheduling ==
    /\ Len(wSamples) >= 1
    /\ \A i \in 1..Len(wSamples) : wSamples[i][1] = "Scheduling"

\* time from the first sample to the return
SinceFirstSample == wRetAt - wSamples[1][2]

\* C3 as stated: with every sample Scheduling and scheduling_timeout below the
\* global timeout, the call returns (False, 'scheduling') at a time t from the
\* first Scheduling sample with scheduling_timeout <= t < scheduling_timeout + 5.
C3_AsStated ==
    (wPc = "done" /\ AllSamplesScheduling /\ wSchedTimeout < wTimeout) =>
        /\ wRet = <<FALSE, "scheduling">>
        /\ wSchedTimeout <= SinceFirstSample
        /\ SinceFirstSample < wSchedTimeout + PollSleep

\* C3 (amended): with every sample Scheduling and a global timeout above
\* scheduling_timeout + 5 s + the longest status query, the call returns
\* (False, 'scheduling') at a time t from the first Scheduling sample with
\* scheduling_timeout < t <= scheduling_timeout + 5 s + the longest status query.
C3_SchedulingWindow ==
    (/\ wPc = "done" /\ AllSamplesScheduling
     /\ wTimeout > wSchedTimeout + PollSleep + MaxCallDur) =>
        /\ wRet = <<FALSE, "scheduling">>
        /\ wSchedTimeout < SinceFirstSample
        /\ SinceFirstSample <= wSchedTimeout + PollSleep + MaxCallDur

C3_Witness ==
    /\ wPc = "done" /\ AllSamplesScheduling
    /\ wTimeout > wSchedTimeout + PollSleep + MaxCallDur
    /\ wRet = <<FALSE, "scheduling">>
    /\ SinceFirstSample = wSchedTimeout + PollSleep
    /\ Len(wSamples) >= 4

\* index of the first sample of the run of Scheduling samples that ends the history
RECURSIVE RunStartIndex(_, _)
RunStartIndex(samples, i) ==
    IF i > 1 /\ samples[i - 1][1] = "Scheduling"
    THEN RunStartIndex(samples, i - 1)
    ELSE i

\* C4: (False, 'scheduling') is returned only when Scheduling has been sampled
\* without interruption for more than scheduling_timeout: a sample of any other
\* status restarts the sub-timer at the next Scheduling sample.
C4_TimerRestarts ==
    wRet = <<FALSE, "scheduling">> =>
        LET first == RunStartIndex(wSamples, Len(wSamples))
        IN /\ \A i \in first..Len(wSamples) : wSamples[i][1] = "Scheduling"
           /\ wRetAt - wSamples[first][2] > wSchedTimeout

C4_Witness ==
    /\ wRet = <<FALSE, "scheduling">>
    /\ \E i, j \in 1..Len(wSamples) :
          /\ i < j /\ j < RunStartIndex(wSamples, Len(wSamples))
          /\ wSamples[i][1] = "Scheduling"
          /\ wSamples[j][1] = "Starting"
          /\ wSamples[j][2] - wSamples[i][2] < wSchedTimeout

SignalIndexes == {i \in 1..Len(vOutcomes) : vOutcomes[i] \in CapacitySignals}

\* wait_for_vms_running has returned to run_iteration
WaitReturned == cPc \notin {"idle", "m_start", "m_loop", "create", "wait1", "wait3"} /\ vPhase # 0

\* C5: once the wait for the k-th VM returns 'scheduling' or 'capacity',
\* wait_for_vm_running is invoked for none of the VMs k+1..n, and each of them
\* is in the returned failed list exactly once (and not in the successful list).
C5_RemainingSkipped ==
    \A k \in SignalIndexes :
        /\ Len(vInvoked) = k
        /\ \A i \in 1..k : vInvoked[i] = vNames[i]
        /\ \A j \in (k + 1)..Len(vNames) : Count(vInvoked, vNames[j]) = 0
        /\ WaitReturned
        /\ \A j \in (k + 1)..Len(vNames) :
              Count(vFailed, vNames[j]) = 1 /\ Count(vSucc, vNames[j]) = 0

C5_Witness ==
    /\ WaitReturned /\ Len(vNames) = 4
    /\ vOutcomes = <<"ok", "capacity">>
    /\ vSucc = <<1>>
    /\ vFailed = <<2, 3, 4>>

\* the first-phase wait saw VMs 1..k-1 reach Running and VM k stuck in Scheduling
StuckAtKth(k) ==
    /\ vPhase = 1
    /\ Len(vOutcomes) = k
    /\ \A i \in 1..(k - 1) : vOutcomes[i] = "ok"
    /\ vOutcomes[k] = "scheduling"

\* C6: in an iteration of n VMs where VMs 1..k-1 reach Running and VM k stays in
\* Scheduling beyond scheduling_timeout, run_iteration returns capacity reached
\* with exactly k-1 successful VMs, VMs k+1..n are not waited on, and (no
\* interrupt) the run ends with end_reason 'capacity' and capacity_reached True.
C6_CapacityScenario ==
    \A k \in 1..Len(vNames) :
        StuckAtKth(k) =>
            /\ Len(vInvoked) = k
            /\ (cRet # NoRet => cRet = <<FALSE, TRUE, k - 1>>)
            /\ (cPc = "done" /\ ~cInterrupted =>
                   /\ cRet = <<FALSE, TRUE, k - 1>>
                   /\ cResults.end_reason = "capacity"
                   /\ cResults.capacity_reached = TRUE)

C6_Witness ==
    /\ cPc = "done" /\ ~cInterrupted
    /\ cArgs.vms = 4 /\ StuckAtKth(3)
    /\ cRet = <<FALSE, TRUE, 2>>
    /\ vFailed = <<3, 4>>
    /\ cResults.end_reason = "capacity"

MaxIterationsHit == cArgs.max_iterations > 0 /\ cIteration > cArgs.max_iterations

\* C7 as stated: end_reason is 'interrupted' if the user interrupted the run;
\* otherwise 'capacity' if any wait of any phase of any iteration returned a
\* capacity signal; otherwise 'error' if an iteration failed; otherwise
\* 'max_iterations' if the iteration cap was hit.
C7_AsStated ==
    cPc = "done" /\ cResults # NoResults =>
        cResults.end_reason =
            IF cInterrupted THEN "interrupted"
            ELSE IF cCapSignal THEN "capacity"
            ELSE IF cIterFailed THEN "error"
            ELSE IF MaxIterationsHit THEN "max_iterations"
            ELSE cResults.end_reason

\* C9 as stated: the process exits nonzero when the run ended with end_reason
\* 'error', and with 0 when it ended by capacity reached.
C9_AsStated ==
    cPc = "done" /\ cResults # NoResults =>
        /\ (cResults.end_reason = "error" => cExit # 0)
        /\ (cResults.end_reason = "capacity" => cExit = 0)

\* C8 as stated: after the creation and monitoring phases every namespace of
\* start..end has exactly one outcome tuple in results, also when its VM
\* creation failed in phase 1.
C8_AsStated ==
    dPc \in {"exit", "done"} =>
        \A ns \in SeqToSet(Range(dArgs.start, dArgs.end)) :
            Cardinality({i \in 1..Len(dResults) : dResults[i].ns = ns}) = 1

\* C10 as stated: the migration process exits nonzero whenever some outcome in
\* migration_results has success = False.
C10_AsStated ==
    (gPc = "done" /\ FailedCount(gResults) > 0) => gExit # 0

\* C11 as stated: when the wait returns success having read a VMIM with an end
\* timestamp and no start timestamp, the VMIM duration it returns is exactly
\* poll_interval (the start being inferred as end - poll_interval).
C11_AsStated ==
    (mWaitRet.success /\ mSeenTs[1] = None /\ mSeenTs[2] # None) =>
        mWaitRet.vmim_duration = mArgs.poll_interval

\* C12 as stated: original_node, the placement the wait compares against, is
\* sampled before migrate_vm creates the VMIM, on the first attempt and on every
\* retry: each successful trigger is preceded, within its attempt, by a sample.
C12_AsStated ==
    \A j \in 1..Len(mLog) :
        mLog[j] = "trigger" =>
            \E i \in 1..(j - 1) :
                /\ mLog[i] = "original"
                /\ \A k \in (i + 1)..(j - 1) : mLog[k] = "trigger_failed"

\* C13 as stated: wait_for_migration_complete returns success only with a known
\* sampled placement that differs from the placement the VM had when the
\* migration was triggered; and it returns (False, timeout) once the timeout
\* has elapsed.
C13_AsStated ==
    /\ mWaitRet.success =>
          /\ mWaitRet.target # None
          /\ mWaitRet.target # eNodeAtTrigger
    /\ (mLog # <<>> /\ mLog[Len(mLog)] = "wait_timeout") =>
          /\ ~mWaitRet.success
          /\ mWaitRet.observed = mArgs.migration_timeout
          /\ mElapsed >= mArgs.migration_timeout

WaitEnds == {"wait_ok", "wait_failed", "wait_timeout"}
Triggers == {"trigger", "trigger_failed"}

\* waits that have ended among the first i logged calls
WaitsUpTo(i) == Cardinality({j \in 1..i : mLog[j] \in WaitEnds})

\* C14: migrate_vm_sequential makes at most max_migration_retries
\* trigger-and-wait attempts; it returns success right after the first wait
\* that succeeds; after a failed wait that is not the last allowed one it
\* deletes the VMIM, then re-queries the VM's node, then triggers again; after
\* the last allowed failed wait it returns failure.
C14_OperationRetries ==
    /\ WaitsUpTo(Len(mLog)) <= mArgs.max_migration_retries
    /\ Cardinality({j \in 1..Len(mLog) : mLog[j] = "trigger"}) <= mArgs.max_migration_retries
    /\ \A i \in 1..Len(mLog) :
          /\ mLog[i] = "wait_ok" =>
                /\ i = Len(mLog)
                /\ mPc \in {"after_wait", "done"}
                /\ (mPc = "done" => mRet.success)
          /\ mLog[i] \in {"wait_failed", "wait_timeout"} =>
                IF WaitsUpTo(i) < mArgs.max_migration_retries
                THEN /\ (i = Len(mLog) => mPc \in {"after_wait", "delete"})
                     /\ (i + 1 <= Len(mLog) => mLog[i + 1] = "delete")
                     /\ (i + 2 <= Len(mLog) => mLog[i + 2] = "requery")
                     /\ (i + 3 <= Len(mLog) => mLog[i + 3] \in Triggers)
                ELSE /\ i = Len(mLog)
                     /\ mPc \in {"after_wait", "done"}
                     /\ (mPc = "done" => ~mRet.success)
          /\ (mLog[i] \in Triggers /\ i > 1) =>
                mLog[i - 1] \in {"source", "requery", "trigger_failed"}
    /\ (mPc = "done" /\ mRet.success) => mLog[Len(mLog)] = "wait_ok"

C14_Witness ==
    /\ mPc = "done" /\ mRet.success
    /\ mArgs.max_migration_retries = 2
    /\ WaitsUpTo(Len(mLog)) = 2
    /\ \E i \in 1..Len(mLog) :
          /\ mLog[i] = "wait_failed"
          /\ SubSeq(mLog, i + 1, i + 3) = <<"delete", "requery", "trigger">>

\* C15: in the parallel, evacuation and round-robin migration scenarios and in
\* the monitoring phases of the datasource-clone and failure-recovery drivers,
\* never more than args.concurrency worker calls (migrate_vm_sequential,
\* monitor_vm, monitor_recovery) are in flight, whatever the number of targets.
C15_BoundedInFlight ==
    /\ Cardinality(gRunning) <= gArgs.concurrency
    /\ Cardinality(dRunning) <= dArgs.concurrency
    /\ Cardinality(fRunning) <= fArgs.concurrency

C15_Witness ==
    /\ Scenario(gArgs) = "round_robin"
    /\ gArgs.namespaces = 3 /\ gArgs.concurrency = 2
    /\ Cardinality(gRunning) = 2 /\ Len(gQueue) = 1

\* sample i is one the loop body returns on: Running, an error state,
\* ErrorUnschedulable, or Scheduling held for more than scheduling_timeout
EndsTheWait(i) ==
    \/ wSamples[i][1] \in {"Running", "ErrorUnschedulable"} \cup ErrorStatuses
    \/ /\ wSamples[i][1] = "Scheduling"
       /\ wSamples[i][2] - wSamples[RunStartIndex(wSamples, i)][2] > wSchedTimeout

NoSampleEndsTheWait == \A i \in 1..Len(wSamples) : ~EndsTheWait(i)

\* C16: wait_for_vm_running returns (False, 'timeout'), at or after the global
\* timeout, exactly when no sample was Running, an error state,
\* ErrorUnschedulable or Scheduling held beyond scheduling_timeout; and every
\* status sample follows a loop test made before the global timeout elapsed.
C16_GlobalTimeout ==
    /\ \A i \in 1..Len(wSamples) : wSamples[i][3] - wStart < wTimeout
    /\ (wPc = "done" /\ NoSampleEndsTheWait) =>
          /\ wRet = <<FALSE, "timeout">>
          /\ wRetAt - wStart >= wTimeout
    /\ wRet = <<FALSE, "timeout">> =>
          /\ wPc = "done" /\ NoSampleEndsTheWait
          /\ wRetAt - wStart >= wTimeout
    /\ (wPc = "loop" /\ wNow - wStart >= wTimeout) => NoSampleEndsTheWait

C16_Witness ==
    /\ wRet = <<FALSE, "timeout">>
    /\ wTimeout = 12 /\ wRetAt = 12
    /\ Len(wSamples) = 2
    /\ wSamples[1][1] = "Scheduling" /\ wSamples[2][1] = "Starting"

\* C17 as stated: for each duration metric, the count/avg/min/max written by
\* save_results and the avg/min/max printed by print_summary_table are those of
\* exactly the successful outcomes that carry the metric; a failed outcome or
\* one without the metric contributes nothing.
C17_AsStated ==
    \A m \in Metrics :
        LET expected == CalcStats(SuccessfulValues(sResults, m))
            omitted == m = "clone_duration_sec" /\ sArgs.skip_clone
        IN /\ (sSaved.written /\ ~omitted) => sSaved.metrics[m] = expected
           /\ (sPrinted.printed /\ ~omitted /\ expected.count > 0) =>
                 sPrinted.metrics[m] = [expected EXCEPT !.count = None]
           /\ (sPrinted.printed /\ expected.count = 0) => sPrinted.metrics[m] = NoStats

RECURSIVE FoldTotal(_, _)
\* total_vms after folding the returned vms_created values, one by one, into acc
FoldTotal(acc, created) ==
    IF created = <<>> THEN acc
    ELSE FoldTotal(AddTotal(acc, Head(created)), Tail(created))

AddPending == cPc = "m_ret" \/ cIntAt = "m_ret"

C19_NoDeleteWithoutCleanup ==
    (~cArgs.cleanup /\ ~cArgs.cleanup_only) => cDeletes = <<>>

C19_Witness ==
    /\ cPc = "done" /\ ~cArgs.cleanup /\ ~cArgs.cleanup_only
    /\ cResults.end_reason = "capacity"
    /\ Len(cReturned) = 2
    /\ cDeletes = <<>>

\* the iteration loop is over
LoopEnded == cPc \in {"m_report", "done"} /\ ~cArgs.cleanup_only /\ cExit # 1

\* C20: with --max-iterations k > 0 and every iteration succeeding the loop
\* runs exactly k iterations and ends with end_reason 'max_iterations' and
\* iterations_completed = k (never more than k iterations are run); with
\* --max-iterations 0 the loop never ends by the cap, only on a failed
\* iteration (an error or capacity reached) or on an interrupt.
C20_IterationCap ==
    /\ cArgs.max_iterations > 0 =>
          /\ Len(cReturned) <= cArgs.max_iterations
          /\ (cPc = "done" /\ cResults # NoResults /\ ~cIterFailed /\ ~cInterrupted) =>
                /\ Len(cReturned) = cArgs.max_iterations
                /\ cResults.end_reason = "max_iterations"
                /\ cResults.iterations_completed = cArgs.max_iterations
    /\ cArgs.max_iterations = 0 =>
          /\ cEndReason # "max_iterations"
          /\ LoopEnded => (cIterFailed \/ cInterrupted)

C20_Witness ==
    /\ cPc = "done" /\ cArgs.max_iterations = 1 /\ cArgs.vms = 2
    /\ cReturned = <<2>>
    /\ cResults.end_reason = "max_iterations"
    /\ cResults.iterations_completed = 1

\* C21: when create_vm returned for every target of the range and every
\* monitor_vm outcome is a success (the VM reached Running and answered ping),
\* the summary save_results builds from main's results has total_vms = N,
\* successful = N and failed = 0 for the N targets, and the process exits
\* with status 0.
AllTargetsSucceeded ==
    /\ SeqToSet(dStartTimes) = SeqToSet(Range(dArgs.start, dArgs.end))
    /\ \A i \in 1..Len(dResults) : dResults[i].success

TrackReturnedTimes == tTrackRet # NoTrackRet /\ tTrackRet # <<None, None, None>>

C22_AsStated ==
    TrackReturnedTimes =>
        /\ tFirstSeen[1] \in {"csicloneinprogress", "succeeded"} =>
               (tTrackRet[1] = tFirstSeen[2] - tArgs.poll_interval /\ tInferred)
        /\ tFirstSeen[1] = "succeeded" => tTrackRet[3] = tArgs.poll_interval
        /\ tFirstSeen[1] = "clonescheduled" =>
               (tTrackRet[1] = tFirstSeen[2] /\ ~tInferred)

\* C28: every monitor_vm call eventually returns an outcome, even when the VM
\* never reaches Running, never gets an IP or never answers ping.
C28_AsStated == <>(tPc = "done" /\ tOutcome.returned)

\* C29: once the DataVolume was sampled in phase Failed, monitor_vm has
\* returned, without waiting for the VM to run or to answer ping, and its
\* outcome is a failure (success = False).
C29_AsStated == tDvFailed => (tPc = "done" /\ tOutcome.returned /\ ~tOutcome.ok)

\* C23: with --interleaved-scheduling, N namespaces and n worker nodes where N
\* is a multiple of n, the namespace submitted at 0-based position r*n + j
\* (0 <= j < n) is the one at 0-based index r + j*(N/n): for 400 and 5 the
\* order 1, 81, 161, 241, 321, 2, 82, ...
C23_InterleavedOrder ==
    (/\ oPc = "submit" /\ oArgs.interleaved_scheduling
     /\ oArgs.namespaces % oNumNodes = 0) =>
        LET n == oNumNodes
            g == oArgs.namespaces \div n
        IN /\ Len(oOrder) = oArgs.namespaces
           /\ \A r \in 0..(g - 1), j \in 0..(n - 1) :
                 oOrder[r * n + j + 1] = (r + j * g) + 1

C23_Witness ==
    /\ oPc = "submit" /\ oArgs.interleaved_scheduling
    /\ oArgs.namespaces = 6 /\ oNumNodes = 2
    /\ oOrder = <<1, 4, 2, 5, 3, 6>>

\* C24: overall_stats (like results and migration_results) is written only by
\* the dispatching thread as it consumes completed futures: a step of a
\* worker leaves it alone, so no two writes are concurrent and no addition is
\* lost -- at every moment it holds exactly the statistics of the futures
\* consumed so far.
RECURSIVE SumStats(_, _)
SumStats(S, field) ==
    IF S = {} THEN 0
    ELSE LET ns == CHOOSE x \in S : TRUE
         IN kStats[ns][field] + SumStats(S \ {ns}, field)

HoldsConsumedStats ==
    /\ kOverall.namespaces_processed = Cardinality(kConsumed)
    /\ kOverall.total_vms_deleted = SumStats(kConsumed, "vms_deleted")
    /\ kOverall.total_dvs_deleted = SumStats(kConsumed, "dvs_deleted")
    /\ kOverall.total_pvcs_deleted = SumStats(kConsumed, "pvcs_deleted")
    /\ kOverall.total_vmims_deleted = SumStats(kConsumed, "vmims_deleted")
    /\ kPc \in {"resources", "namespaces"} =>
          kOverall.total_errors = SumStats(kConsumed, "errors")

TrimmedLower(answer) ==
    CASE answer \in {"yes", "YES", "Yes", " yes "} -> "yes"
      [] answer \in {"y", "Y", "  Y"} -> "y"
      [] answer \in {"", " "} -> ""
      [] OTHER -> answer

C25_ConfirmCleanup ==
    qPc = "done" =>
        IF qArgs.auto_yes \/ qArgs.num_namespaces <= 10
        THEN qRet = "True" /\ qPrompts = <<>>
        ELSE /\ Len(qPrompts) = 1
             /\ (qRet = "True") = (TrimmedLower(qPrompts[1]) \in {"yes", "y"})
             /\ qRet \in {"True", "False"}

C25_Witness ==
    /\ qPc = "done" /\ ~qArgs.auto_yes /\ qArgs.num_namespaces = 11
    /\ qPrompts = <<" yes ">> /\ qRet = "True"

\* C26: with dry_run=True, cleanup_namespace_resources and
\* cleanup_test_namespaces issue no delete for any VMIM, VM, DataVolume, PVC
\* or namespace, and every deletion counter of the returned statistics
\* (namespaces_deleted included) is 0.
NothingCounted(stats) ==
    /\ stats.vms_deleted = 0 /\ stats.dvs_deleted = 0
    /\ stats.pvcs_deleted = 0 /\ stats.vmims_deleted = 0

C26_DryRunDeletesNothing ==
    (kPc # "idle" /\ kArgs.dry_run) =>
        /\ kDeletes = {}
        /\ \A ns \in 1..kArgs.namespaces : NothingCounted(kStats[ns])
        /\ kOverall.namespaces_deleted = 0
        /\ kOverall.total_vms_deleted = 0 /\ kOverall.total_dvs_deleted = 0
        /\ kOverall.total_pvcs_deleted = 0 /\ kOverall.total_vmims_deleted = 0

C26_Witness ==
    /\ kPc = "done" /\ kArgs.dry_run /\ kArgs.delete_namespaces
    /\ kArgs.namespaces = MaxCleanNs /\ kConsumed = 1..MaxCleanNs
    /\ kSeen = Kinds
    /\ kOverall.namespaces_processed = MaxCleanNs

\* C27: an attempt of create_vm_with_data_volumes or create_vms_on_node that
\* raises an exception whose message matches no retryable pattern is fatal:
\* no further attempt is made for that VM and no backoff sleep follows it.
FatalException(o) == o.kind = "exception" /\ ~IsRetryable(rFn, o.msg)

C27_AsStated ==
    \A k \in 1..Len(rOutcomes) :
        FatalException(rOutcomes[k]) =>
            /\ k = Len(rOutcomes)
            /\ \A i \in 1..Len(rSleeps) : rSleeps[i].after < k

CountedBeforeInterrupt ==
    IF cIntAt = "m_ret" THEN SubSeq(cReturned, 1, Len(cReturned) - 1) ELSE cReturned

RunningAfterCreate ==
    IF Len(cCreated) < cArgs.vms THEN 0
    ELSE IF vPhase = 3 THEN Len(vNames) ELSE Len(vSucc)

\* C31: the vms_created value run_iteration returns is the number of VMs of
\* the iteration that reached Running after creation, whatever a later phase
\* (resize, restart, snapshot) of the same iteration did.
C31_AsStated ==
    cPc = "m_ret" => cRet[3] = RunningAfterCreate

\* C32: restart_vm issues the start command only after the stop command
\* succeeded and the VM was then observed stopped, its VMI absent; when the
\* stop command fails or the VM is not observed stopped within the wait
\* timeout, start is never issued and restart_vm returns False.
C32_AsStated ==
    /\ (\E i \in 1..Len(xCmds) : xCmds[i] = "start") =>
          (xHalted /\ xEndedBy = "notfound" /\ ~xVmi)
    /\ (xPc = "done" /\ (~xHalted \/ xEndedBy = "timeout")) =>
          /\ \A i \in 1..Len(xCmds) : xCmds[i] # "start"
          /\ xRet = "false"

\* the VMIM creation loop has used its last invocation and migrate_vm_sequential returned
VmimExhausted ==
    mPc = "done" /\ mLog # <<>> /\ mLog[Len(mLog)] = "trigger_failed"

\* C33: per migration attempt migrate_vm is invoked at most max_vmim_retries
\* times; every failed invocation but the last allowed one is followed by one
\* sleep of the constant retry_delay and then by the next invocation, the
\* last one by no sleep; once max_vmim_retries invocations have failed,
\* migrate_vm_sequential returns a failure outcome without entering
\* wait_for_migration_complete.
C33_VmimCreationRetries ==
    /\ mVmimAttempt <= mArgs.max_vmim_retries
    /\ \A i \in 1..Len(mVmimSleeps) :
          /\ mVmimSleeps[i].delay = RetryDelay
          /\ mVmimSleeps[i].after < mArgs.max_vmim_retries
          /\ mVmimSleeps[i].mig <= mMigAttempt
          /\ IF i > 1 /\ mVmimSleeps[i - 1].mig = mVmimSleeps[i].mig
             THEN mVmimSleeps[i].after = mVmimSleeps[i - 1].after + 1
             ELSE /\ mVmimSleeps[i].after = 1
                  /\ i > 1 => mVmimSleeps[i - 1].mig < mVmimSleeps[i].mig
    /\ Cardinality({j \in 1..Len(mLog) : mLog[j] = "trigger_failed"})
          = Len(mVmimSleeps) + (IF VmimExhausted THEN 1 ELSE 0)
    /\ \A j \in 1..Len(mLog) :
          mLog[j] = "trigger_failed" =>
              IF j < Len(mLog) THEN mLog[j + 1] \in {"trigger", "trigger_failed"}
              ELSE mPc \in {"trigger", "done"}
    /\ VmimExhausted =>
          /\ mVmimAttempt = mArgs.max_vmim_retries
          /\ mRet = [success |-> FALSE, observed |-> 0, source |-> mSource,
                     target |-> None, vmim_duration |-> None]

C33_Witness ==
    /\ VmimExhausted
    /\ mArgs.max_vmim_retries = 2 /\ mMigAttempt = 2
    /\ SubSeq(mLog, Len(mLog) - 2, Len(mLog)) = <<"requery", "trigger_failed", "trigger_failed">>
    /\ mVmimSleeps = <<[mig |-> 2, after |-> 1, delay |-> 2]>>

\* what migrate_vm_sequential does after the wait logged at position i
FollowUp(i) == SubSeq(mLog, i + 1, IF i + 3 <= Len(mLog) THEN i + 3 ELSE Len(mLog))

\* the follow-up of a failed wait that is not the last allowed one, as far as
\* it has been carried out
IsRetryPrefix(q) ==
    \/ q = <<>>
    \/ q = <<"delete">>
    \/ q = <<"delete", "requery">>
    \/ q = <<"delete", "requery", "trigger">>
    \/ q = <<"delete", "requery", "trigger_failed">>

\* C34: an attempt that wait_for_migration_complete ends by timeout (it
\* returns False with the timeout as observed duration) is treated by
\* migrate_vm_sequential like one ended by a Failed VMIM phase: while fewer
\* than max_migration_retries attempts have been used the VMIM is deleted, the
\* source node re-queried and the migration triggered again; after the last
\* allowed attempt a failure outcome carrying the timeout is returned.
C34_TimeoutRetriedLikeFailed ==
    \A i \in 1..Len(mLog) :
        mLog[i] = "wait_timeout" =>
            IF WaitsUpTo(i) < mArgs.max_migration_retries
            THEN /\ IsRetryPrefix(FollowUp(i))
                 /\ Len(FollowUp(i)) < 3 => mPc \in {"after_wait", "delete", "requery", "trigger"}
            ELSE /\ i = Len(mLog)
                 /\ mPc \in {"after_wait", "done"}
                 /\ mPc = "done" =>
                       mRet = [success |-> FALSE, observed |-> mArgs.migration_timeout,
                               source |-> mSource, target |-> None, vmim_duration |-> None]

C34_Witness ==
    /\ mPc = "done" /\ mArgs.max_migration_retries = 2
    /\ \E i \in 1..Len(mLog) :
          /\ mLog[i] = "wait_timeout"
          /\ FollowUp(i) = <<"delete", "requery", "trigger">>
    /\ mLog[Len(mLog)] = "wait_timeout"
    /\ ~mRet.success

\* C35: whatever the per-VM waits return (success, timeout, error,
\* scheduling, capacity, a raised exception), the successful and failed lists
\* wait_for_vms_running returns are disjoint, hold no name twice and together
\* hold exactly the names of vm_names; while the loop runs they partition the
\* names waited for so far.
C35_ListsPartitionNames ==
    cPc \in {"wait1", "wait3", "after_wait1", "after_wait3"} =>
        /\ \A n \in SeqToSet(vNames) : Count(vSucc, n) + Count(vFailed, n) <= 1
        /\ SeqToSet(vSucc) \cup SeqToSet(vFailed) \subseteq SeqToSet(vNames)
        /\ SeqToSet(vInvoked) \subseteq SeqToSet(vSucc) \cup SeqToSet(vFailed)
        /\ cPc \in {"after_wait1", "after_wait3"} =>
              /\ SeqToSet(vSucc) \cup SeqToSet(vFailed) = SeqToSet(vNames)
              /\ Len(vSucc) + Len(vFailed) = Len(vNames)

C35_Witness ==
    /\ cPc = "after_wait1"
    /\ vNames = <<1, 2, 3, 4>>
    /\ vOutcomes = <<"ok", "raise", "capacity">>
    /\ vSucc = <<1>>
    /\ vFailed = <<2, 3, 4>>

\* C36: when the capacity report is built, capacity_reached is True exactly
\* when end_reason is 'capacity', in every run, a run interrupted by the user
\* at any point of the iteration loop included.
C36_AsStated ==
    (cPc = "done" /\ cResults # NoResults) =>
        (cResults.capacity_reached <=> cResults.end_reason = "capacity")

\* the last iteration returned a failure to main
LastFailed == cRet # NoRet /\ ~cRet[1]

\* the iterations whose run_iteration call returned success
SuccessfulIterations == Len(cReturned) - (IF LastFailed THEN 1 ELSE 0)

\* the last iteration returned capacity reached
CapacityFinal == LastFailed /\ cRet[2]

\* C37 as stated: iterations_completed is the number of iterations that
\* returned success, plus the final iteration when it ended by capacity
\* reached; a final iteration ended by an error or an interrupt is not counted.
C37_AsStated ==
    (cPc = "done" /\ cResults # NoResults) =>
        cResults.iterations_completed
            = SuccessfulIterations + (IF CapacityFinal THEN 1 ELSE 0)

\* the KeyboardInterrupt was raised after run_iteration returned and before
\* main finished with that iteration (`iteration += 1`, or `break`)
InterruptedAfterReturn == cIntAt \in {"m_ret", "m_branch", "m_setreason", "m_break"}

\* C37 (amended): iterations_completed is the number of iterations that
\* returned success plus the final one when it ended by capacity reached; a
\* final iteration ended by an error, by an exception or by an interrupt
\* raised while it ran is not counted; neither is the iteration that had just
\* returned (with success or with capacity reached) when the interrupt was
\* raised before main's `iteration += 1` or `break`.
C37_IterationsCompleted ==
    (cPc = "done" /\ cResults # NoResults) =>
        cResults.iterations_completed
            = IF InterruptedAfterReturn THEN Len(cReturned) - 1
              ELSE SuccessfulIterations + (IF CapacityFinal THEN 1 ELSE 0)

C37_Witness ==
    /\ cPc = "done" /\ ~cInterrupted
    /\ cReturned = <<1, 0>> /\ cRet = <<FALSE, TRUE, 0>>
    /\ cResults.end_reason = "capacity"
    /\ cResults.iterations_completed = 2

C39_ReorderIsPermutation ==
    /\ \A k \in 1..Len(oOrder) :
          /\ oOrder[k] \in 1..oArgs.namespaces
          /\ Count(oOrder, oOrder[k]) = 1
    /\ oPc = "submit" =>
          /\ Len(oOrder) = oArgs.namespaces
          /\ \A ns \in 1..oArgs.namespaces : Count(oOrder, ns) = 1

C39_Witness ==
    /\ oPc = "submit" /\ oArgs.interleaved_scheduling
    /\ oArgs.namespaces = 7 /\ oNumNodes = 3
    /\ oOrder = <<1, 3, 5, 7, 2, 4, 6>>

====
